---- MODULE Spec2Model ----
(***************************************************************************)
(* A model of ghost_static_generator.py (class                             *)
(* ImprovedGhostStaticGenerator): the crawl (scrape_site and what it       *)
(* calls), the resource store (save_file), the URL classifier              *)
(* (is_same_domain, urljoin/urlparse as the code uses them), the two       *)
(* rewrite passes and run().                                               *)
(*                                                                         *)
(* Strings are sequences of tokens: a token is a maximal run of letters    *)
(* and digits, or one punctuation character.  "http://helium:2368/a.jpg"   *)
(* is <<"http",":","/","/","helium",":","2368","/","a",".","jpg">>.        *)
(* Every string operation of the code (find, split, lstrip, replace,       *)
(* startswith) is computed on these sequences the way the library computes *)
(* it on characters.                                                       *)
(***************************************************************************)
EXTENDS Integers, Sequences, FiniteSets, TLC

VARIABLES
    source_url,     \* self.source_url
    target_url,     \* self.target_url
    visited_urls,   \* self.visited_urls
    file_urls,      \* self.file_urls
    files,          \* the tree under self.public_dir: relative path -> content
    site,           \* the origin: URL -> [ctype, doc], what a request for it answers
    stack,          \* the call stack of the crawl, innermost call last
    exc,            \* the exception being raised, "none" when none is
    fetches,        \* URL -> the number of requests.get issued for it
    failures,       \* the transport failures the origin has produced so far
    call,           \* a direct call of a method: [op, parts, ret], parts the URL given
    force_reconvert, \* self.force_reconvert
    encoders,       \* the encoder programs installed on the machine
    trace,          \* the stages run() has called so far, in order
    log             \* what has happened so far: [failed, gets, saves, invoked]

vars == <<source_url, target_url, visited_urls, file_urls, files, site, stack,
          exc, fetches, failures, call, force_reconvert, encoders, trace, log>>

\* the most frames the model lets the call stack hold
MaxDepth == 16

\* the most transport failures (time-outs, resets) of one run
MaxFailures == 2

-----------------------------------------------------------------------------
(* Strings as token sequences *)

\* F(v), with v evaluated once
With(v, F(_)) == CHOOSE r \in {F(x) : x \in {v}} : TRUE

Min(S) == CHOOSE x \in S : \A y \in S : x <= y

\* s[from..], the Python slice s[from-1:]
Drop(s, from) == IF from > Len(s) THEN <<>> ELSE SubSeq(s, from, Len(s))

\* s[:upto] exclusive of position upto
Take(s, upto) == IF upto <= 1 THEN <<>> ELSE SubSeq(s, 1, upto - 1)

\* str.find of any token of T, from position from; Len(s)+1 when none
FindAny(s, T, from) ==
    LET I == {k \in from..Len(s) : s[k] \in T}
    IN  IF I = {} THEN Len(s) + 1 ELSE Min(I)

StartsWith(s, p) == Len(s) >= Len(p) /\ SubSeq(s, 1, Len(p)) = p

\* str.lstrip('/')
RECURSIVE LStripSlash(_)
LStripSlash(s) ==
    IF s # <<>> /\ s[1] = "/" THEN With(Tail(s), LAMBDA t : LStripSlash(t)) ELSE s

\* str.lower on one token
Lower(t) ==
    CASE t = "HTTP" -> "http"
      [] t = "HELIUM" -> "helium"
      [] t = "HTML" -> "html"
      [] t = "JPG" -> "jpg"
      [] OTHER -> t

\* str.replace(old, new): leftmost, non-overlapping occurrences, old non-empty
RECURSIVE Replace(_, _, _)
Replace(s, old, new) ==
    IF s = <<>> THEN <<>>
    ELSE IF old # <<>> /\ StartsWith(s, old)
         THEN new \o With(Drop(s, Len(old) + 1), LAMBDA t : Replace(t, old, new))
         ELSE <<s[1]>> \o With(Tail(s), LAMBDA t : Replace(t, old, new))

\* old in s
RECURSIVE Contains(_, _)
Contains(s, old) ==
    IF Len(s) < Len(old) THEN FALSE
    ELSE StartsWith(s, old) \/ With(Tail(s), LAMBDA t : Contains(t, old))

\* the token t occurs in s
Contains1(s, t) == \E k \in 1..Len(s) : s[k] = t

\* str.split(sep): the pieces between the separators
RECURSIVE SplitOn(_, _)
SplitOn(s, sep) ==
    With(FindAny(s, {sep}, 1), LAMBDA k :
        IF k > Len(s) THEN <<s>>
        ELSE <<Take(s, k)>> \o With(Drop(s, k + 1), LAMBDA t : SplitOn(t, sep)))

SplitSlash(s) == SplitOn(s, "/")

\* str.split(): the non-empty pieces between runs of white space
WhiteSplit(s) == SelectSeq(SplitOn(s, " "), LAMBDA x : x # <<>>)

\* the concatenation of a sequence of sequences
RECURSIVE Flatten(_)
Flatten(ss) ==
    IF ss = <<>> THEN <<>> ELSE ss[1] \o With(Tail(ss), LAMBDA t : Flatten(t))

Max(S) == CHOOSE x \in S : \A y \in S : x >= y

\* '/'.join(segments)
RECURSIVE JoinSlash(_)
JoinSlash(segs) ==
    IF segs = <<>> THEN <<>>
    ELSE IF Len(segs) = 1 THEN segs[1]
    ELSE segs[1] \o <<"/">> \o With(Tail(segs), LAMBDA t : JoinSlash(t))

-----------------------------------------------------------------------------
(* urllib.parse as the code uses it *)

\* the token of the double-quote character
DQ == "dq"

\* the token of the backtick character
BT == "bt"

\* the punctuation tokens, and those of them a scheme may contain
Punct == {"/", "?", "#", "@", ":", ".", "-", "+", "=", "(", ")", "'", DQ, BT,
          ",", " ", ";", "<", ">", "{", "}"}

SchemePunct == {".", "-", "+"}

\* the tokens made of digits only
Digits == {"2368", "80", "400", "800"}

\* urlsplit, last step: the query is what follows the first "?" of r
ParseQuery(scheme, netloc, r, frag, q) ==
    [scheme |-> scheme, netloc |-> netloc, path |-> Take(r, q),
     query |-> Drop(r, q + 1), fragment |-> frag]

\* urlsplit: the fragment is what follows the first "#" (at h) of r
ParseFragment(scheme, netloc, r, h) ==
    With(Take(r, h), LAMBDA p :
        With(FindAny(p, {"?"}, 1), LAMBDA q :
            ParseQuery(scheme, netloc, p, Drop(r, h + 1), q)))

\* urlsplit: after "//" the netloc runs to the first "/", "?" or "#" (at d)
ParseNetloc(scheme, r, d) ==
    With(Drop(r, d), LAMBDA p :
        With(FindAny(p, {"#"}, 1), LAMBDA h :
            ParseFragment(scheme, SubSeq(r, 3, d - 1), p, h)))

\* urlsplit: what follows the scheme
ParseRest(scheme, r) ==
    IF StartsWith(r, <<"/", "/">>)
    THEN With(FindAny(r, {"/", "?", "#"}, 3), LAMBDA d : ParseNetloc(scheme, r, d))
    ELSE With(FindAny(r, {"#"}, 1), LAMBDA h : ParseFragment(scheme, <<>>, r, h))

\* url[:i] is a scheme: it starts with a letter and holds scheme characters only
HasScheme(url, i) ==
    /\ i > 1 /\ i <= Len(url)
    /\ url[1] \notin Digits \cup Punct
    /\ \A k \in 1..(i - 1) : url[k] \notin Punct \ SchemePunct

\* urlsplit, first step: i is the place of the first ":"
ParseScheme(url, i) ==
    IF HasScheme(url, i)
    THEN With(Drop(url, i + 1), LAMBDA r :
             ParseRest([k \in 1..(i - 1) |-> Lower(url[k])], r))
    ELSE ParseRest(<<>>, url)

\* urlparse(url): scheme, netloc, path, query, fragment
urlparse(url) ==
    With(url, LAMBDA u : With(FindAny(u, {":"}, 1), LAMBDA i : ParseScheme(u, i)))

\* urlunsplit: '//' + netloc + path (http and https are in uses_netloc)
UnparseNetloc(p) ==
    IF p.netloc # <<>> \/ (p.scheme # <<>> /\ ~StartsWith(p.path, <<"/", "/">>))
    THEN <<"/", "/">> \o p.netloc
         \o (IF p.path # <<>> /\ p.path[1] # "/" THEN <<"/">> ELSE <<>>)
         \o p.path
    ELSE p.path

UnparseScheme(p, url) == IF p.scheme # <<>> THEN p.scheme \o <<":">> \o url ELSE url

UnparseQuery(p, url) == IF p.query # <<>> THEN url \o <<"?">> \o p.query ELSE url

UnparseFragment(p, url) == IF p.fragment # <<>> THEN url \o <<"#">> \o p.fragment ELSE url

urlunparse(p) ==
    With(p, LAMBDA u :
        UnparseFragment(u, UnparseQuery(u, UnparseScheme(u, UnparseNetloc(u)))))

\* the dot-segment loop of urljoin
RECURSIVE ResolveDots(_, _)
ResolveDots(segs, acc) ==
    IF segs = <<>> THEN acc
    ELSE With(Tail(segs), LAMBDA t :
             IF segs[1] = <<".", ".">>
             THEN With(IF acc = <<>> THEN acc ELSE Take(acc, Len(acc)), LAMBDA a :
                      ResolveDots(t, a))
             ELSE IF segs[1] = <<".">> THEN ResolveDots(t, acc)
             ELSE With(Append(acc, segs[1]), LAMBDA a : ResolveDots(t, a)))

\* segments[1:-1] = filter(None, segments[1:-1])
FilterMiddle(segs) ==
    IF Len(segs) <= 2 THEN segs
    ELSE <<segs[1]>>
         \o SelectSeq(SubSeq(segs, 2, Len(segs) - 1), LAMBDA x : x # <<>>)
         \o <<segs[Len(segs)]>>

\* base_parts: the base path's segments without the last, unless that is empty
BaseParts(parts) == IF parts[Len(parts)] # <<>> THEN Take(parts, Len(parts)) ELSE parts

\* the segments urljoin resolves
JoinSegments(bpath, path) ==
    IF path[1] = "/" THEN SplitSlash(path)
    ELSE FilterMiddle(BaseParts(SplitSlash(bpath)) \o SplitSlash(path))

\* a trailing "." or ".." leaves a trailing slash
ResolvedPath(segs, resolved) ==
    IF segs[Len(segs)] \in {<<".">>, <<".", ".">>} THEN Append(resolved, <<>>) ELSE resolved

\* '/'.join(resolved_path) or '/'
PathOrSlash(joined) == IF joined = <<>> THEN <<"/">> ELSE joined

MergePaths(segs) ==
    With(segs, LAMBDA s : PathOrSlash(JoinSlash(ResolvedPath(s, ResolveDots(s, <<>>)))))

UsesRelative == {<<"http">>, <<"https">>, <<>>}

\* urljoin once both are parsed and the reference has taken the base's scheme
JoinParsed(url, b, u) ==
    IF u.scheme # b.scheme \/ u.scheme \notin UsesRelative THEN url
    ELSE IF u.netloc # <<>> THEN urlunparse(u)
    ELSE urlunparse(
        IF u.path = <<>>
        THEN [u EXCEPT !.netloc = b.netloc, !.path = b.path,
                       !.query = IF u.query = <<>> THEN b.query ELSE u.query]
        ELSE [u EXCEPT !.netloc = b.netloc,
                       !.path = MergePaths(JoinSegments(b.path, u.path))])

\* urlparse(url, bscheme): the base's scheme is the default
WithScheme(b, u) == IF u.scheme = <<>> THEN [u EXCEPT !.scheme = b.scheme] ELSE u

urljoin(base, url) ==
    IF base = <<>> THEN url
    ELSE IF url = <<>> THEN base
    ELSE With(urlparse(base), LAMBDA b :
             With(WithScheme(b, urlparse(url)), LAMBDA u : JoinParsed(url, b, u)))

-----------------------------------------------------------------------------
(* URL classifier and resource store *)

\* a test of the scheme in the place of the test of the netloc
is_same_scheme(src, url) == urlparse(url).scheme = urlparse(src).scheme

is_same_domain(src, url) == urlparse(url).netloc = urlparse(src).netloc

\* index.html for the root only, a path that ends in a slash left as it is
IndexNameOfRoot(rel) == IF rel = <<>> THEN <<"index", ".", "html">> ELSE rel

\* the path save_file writes, relative to self.public_dir
IndexName(rel) ==
    IF rel = <<>> THEN <<"index", ".", "html">>
    ELSE IF rel[Len(rel)] = "/" THEN rel \o <<"index", ".", "html">>
    ELSE rel

local_path(url) == With(LStripSlash(urlparse(url).path), LAMBDA rel : IndexName(rel))

\* save_file: open(file_path, 'w' or 'wb') and write, replacing what was there
Write(fs, p, content) == [q \in DOMAIN fs \cup {p} |-> IF q = p THEN content ELSE fs[q]]

save_file(fs, url, content) == With(local_path(url), LAMBDA p : Write(fs, p, content))

update_url(src, tgt, url) == Replace(url, src, tgt)

update_all_urls(src, tgt, content) == Replace(content, src, tgt)

-----------------------------------------------------------------------------
(* Documents.  A response body is markup; BeautifulSoup turns it into      *)
(* elements, each [tag, attrs, string, kids]: attrs maps the attribute     *)
(* names the tag carries to their values, string is the text inside the    *)
(* element, kids the elements inside it.  The text of a file that is not   *)
(* markup is one element with no tag.                                      *)

El(tag, attrs) == [tag |-> tag, attrs |-> attrs, string |-> <<>>, kids |-> <<>>]

ElText(tag, text) == [tag |-> tag, attrs |-> <<>>, string |-> text, kids |-> <<>>]

\* tag[name] = value
Put(e, name, value) ==
    [e EXCEPT !.attrs = [n \in DOMAIN e.attrs \cup {name} |->
                            IF n = name THEN value ELSE e.attrs[n]]]

\* tag.get(name): None (falsy, as the empty string is) when the attribute is absent
Get(e, name) == IF name \in DOMAIN e.attrs THEN e.attrs[name] ELSE <<>>

Has(e, name) == name \in DOMAIN e.attrs

Quotes == {"'", DQ}

\* the url(...) pattern, once "url(" is found at k: c is where the capture
\* starts, stop the first quote at or after c.  The capture is greedy: it runs
\* to the quote when quote and ")" follow, else back to the last ")" it holds
CssCapture(text, k, c, stop) ==
    IF c > stop - 1 THEN [ok |-> FALSE, cap |-> <<>>, end |-> k]
    ELSE IF stop + 1 <= Len(text) /\ text[stop + 1] = ")"
    THEN [ok |-> TRUE, cap |-> SubSeq(text, c, stop - 1), end |-> stop + 1]
    ELSE IF {e \in c..(stop - 2) : text[e + 1] = ")"} # {}
    THEN [ok |-> TRUE,
          cap |-> SubSeq(text, c, Max({e \in c..(stop - 2) : text[e + 1] = ")"})),
          end |-> Max({e \in c..(stop - 2) : text[e + 1] = ")"}) + 1]
    ELSE [ok |-> FALSE, cap |-> <<>>, end |-> k]

CssCaptureFrom(text, k, c) ==
    With(FindAny(text, Quotes, c), LAMBDA stop : CssCapture(text, k, c, stop))

\* one match of the url(...) pattern starting at position k of text: [ok, cap, end]
CssUrlMatch(text, k) ==
    IF k + 1 > Len(text) \/ text[k] # "url" \/ text[k + 1] # "("
    THEN [ok |-> FALSE, cap |-> <<>>, end |-> k]
    ELSE CssCaptureFrom(text, k, IF k + 2 <= Len(text) /\ text[k + 2] \in Quotes
                                 THEN k + 3 ELSE k + 2)

\* re.findall of the url(...) pattern in text, scanning from position k
RECURSIVE CssUrlsFrom(_, _)
CssUrlsFrom(text, from) ==
    With(FindAny(text, {"url"}, from), LAMBDA k :
        IF k > Len(text) THEN <<>>
        ELSE With(CssUrlMatch(text, k), LAMBDA m :
                 IF m.ok THEN <<m.cap>> \o With(m.end + 1, LAMBDA n : CssUrlsFrom(text, n))
                 ELSE With(k + 1, LAMBDA n : CssUrlsFrom(text, n))))

CssUrls(text) == With(text, LAMBDA t : CssUrlsFrom(t, 1))

ResourceExts == {"jpg", "jpeg", "png", "gif", "svg", "js", "css"}

\* tokens of [\w-]
WordOrDash(t) == t = "-" \/ t \notin Punct

\* (?:\.{1,2}\/)* : the leading ./ and ../ of a literal, removed
RECURSIVE StripDotSlash(_)
StripDotSlash(b) ==
    IF StartsWith(b, <<".", "/">>) THEN With(Drop(b, 3), LAMBDA t : StripDotSlash(t))
    ELSE IF StartsWith(b, <<".", ".", "/">>) THEN With(Drop(b, 4), LAMBDA t : StripDotSlash(t))
    ELSE b

\* [\w-]+\.(?:jpg|jpeg|png|gif|svg|js|css) matches all of the last segment
ResourceName(last) ==
    /\ Len(last) >= 3
    /\ last[Len(last)] \in ResourceExts
    /\ last[Len(last) - 1] = "."
    /\ \A j \in 1..(Len(last) - 2) : WordOrDash(last[j])

\* (?:[\w-]+\/)*  then the name
ResourceSegments(segs) ==
    /\ \A k \in 1..(Len(segs) - 1) :
          segs[k] # <<>> /\ \A j \in 1..Len(segs[k]) : WordOrDash(segs[k][j])
    /\ ResourceName(segs[Len(segs)])

\* (?:\.{1,2}\/)*(?:[\w-]+\/)*[\w-]+\.(?:jpg|jpeg|png|gif|svg|js|css) matches all of b
ResourceLike(b) == With(SplitSlash(StripDotSlash(b)), LAMBDA segs : ResourceSegments(segs))

LiteralQuotes == {"'", DQ, BT}

\* the quote at k opens a literal that the same quote closes at j
LiteralAt(text, k, j) ==
    /\ j <= Len(text) /\ text[j] = text[k] /\ j > k + 1
    /\ ResourceLike(SubSeq(text, k + 1, j - 1))

\* resource_pattern.finditer(text), group 2 of each match, scanning from position k
RECURSIVE ResourceLiteralsFrom(_, _)
ResourceLiteralsFrom(text, from) ==
    With(FindAny(text, LiteralQuotes, from), LAMBDA k :
        IF k > Len(text) THEN <<>>
        ELSE With(FindAny(text, Punct \ {".", "/", "-"}, k + 1), LAMBDA j :
                 IF LiteralAt(text, k, j)
                 THEN <<SubSeq(text, k + 1, j - 1)>>
                      \o With(j + 1, LAMBDA n : ResourceLiteralsFrom(text, n))
                 ELSE With(k + 1, LAMBDA n : ResourceLiteralsFrom(text, n))))

ResourceLiterals(text) == With(text, LAMBDA t : ResourceLiteralsFrom(t, 1))

\* the attribute names in the order the markup writes them
AttrOrder == <<"rel", "property", "type", "href", "src", "data-src", "srcset", "data-srcset",
               "sizes", "content", "style", "loading">>

\* the markup of one element: the open tag with its quoted attributes, the
\* string, the close tag
RECURSIVE Markup(_)
Markup(e) ==
    <<"<", e.tag>>
    \o Flatten([k \in 1..Len(AttrOrder) |->
                  IF Has(e, AttrOrder[k])
                  THEN <<" ", AttrOrder[k], "=", DQ>> \o e.attrs[AttrOrder[k]] \o <<DQ>>
                  ELSE <<>>])
    \o <<">">> \o e.string
    \o Flatten([k \in 1..Len(e.kids) |-> Markup(e.kids[k])])
    \o <<"<", "/", e.tag, ">">>

\* response.text of a document
RawText(doc) == Flatten([k \in 1..Len(doc) |-> Markup(doc[k])])

-----------------------------------------------------------------------------
(* Content extractors: what each loop of the code iterates over, in order  *)

Item(kind, url, at) == [kind |-> kind, url |-> url, at |-> at]

\* the items of the elements of doc, one element after the other
ForEach(doc, F(_, _)) ==
    With([k \in 1..Len(doc) |-> F(doc[k], k)], LAMBDA parts : Flatten(parts))

\* resolve against base, scope-check, keep the in-scope ones
Items(urls, kind, at) == [k \in 1..Len(urls) |-> Item(kind, urls[k], at)]

InScope(src, urls) == SelectSeq(urls, LAMBDA x : is_same_domain(src, x))

Resolved(src, base, refs, kind, at) ==
    With(refs, LAMBDA rs :
        With(InScope(src, [k \in 1..Len(rs) |-> urljoin(base, rs[k])]), LAMBDA urls :
            Items(urls, kind, at)))

\* a or b, on strings (the empty string and None are falsy)
Or(a, b) == IF a # <<>> THEN a ELSE b

\* tag.get('href') or tag.get('src') or tag.get('data-src')
FirstRef(e) == Or(Get(e, "href"), Or(Get(e, "src"), Get(e, "data-src")))

\* process_html: the four loops
HtmlTagItems(src, url, doc) ==
    LET F(e, k) == IF e.tag \in {"a", "link", "script", "img", "source"} /\ FirstRef(e) # <<>>
                   THEN Resolved(src, url, <<FirstRef(e)>>, "url", k) ELSE <<>>
    IN  ForEach(doc, F)

HtmlIframeItems(src, url, doc) ==
    LET F(e, k) == IF e.tag = "iframe" /\ Get(e, "src") # <<>>
                   THEN Resolved(src, url, <<Get(e, "src")>>, "iframe", k) ELSE <<>>
    IN  ForEach(doc, F)

HtmlStyleItems(src, url, doc) ==
    LET F(e, k) == IF e.tag = "style" /\ e.string # <<>>
                   THEN Resolved(src, url, CssUrls(e.string), "url", k) ELSE <<>>
    IN  ForEach(doc, F)

HtmlInlineItems(src, url, doc) ==
    LET F(e, k) == IF Has(e, "style")
                   THEN Resolved(src, url, CssUrls(e.attrs["style"]), "url", k) ELSE <<>>
    IN  ForEach(doc, F)

\* process_html with the iframe loop before the tag loop
ProcessHtmlPlanFramesFirst(src, url, doc) ==
    HtmlIframeItems(src, url, doc) \o HtmlTagItems(src, url, doc)
    \o HtmlStyleItems(src, url, doc) \o HtmlInlineItems(src, url, doc)

ProcessHtmlPlan(src, url, doc) ==
    HtmlTagItems(src, url, doc) \o HtmlIframeItems(src, url, doc)
    \o HtmlStyleItems(src, url, doc) \o HtmlInlineItems(src, url, doc)

\* scrape_iframe_content: scripts, stylesheets, images, then the literals of
\* the raw text; link['href'] raises KeyError on a link without href
IframePlan(src, url, doc) ==
    LET S(e, k) == IF e.tag = "script" /\ Has(e, "src")
                   THEN Resolved(src, url, <<e.attrs["src"]>>, "url", k) ELSE <<>>
        L(e, k) == IF e.tag = "link" /\ Contains1(Get(e, "rel"), "stylesheet")
                   THEN IF Has(e, "href")
                        THEN Resolved(src, url, <<e.attrs["href"]>>, "url", k)
                        ELSE <<Item("KeyError", <<>>, k)>>
                   ELSE <<>>
        I(e, k) == IF e.tag = "img" /\ Has(e, "src")
                   THEN Resolved(src, url, <<e.attrs["src"]>>, "url", k) ELSE <<>>
    IN  ForEach(doc, S) \o ForEach(doc, L) \o ForEach(doc, I)
        \o Resolved(src, url, ResourceLiterals(RawText(doc)), "url", 0)

\* the candidate URLs of a srcset value: the first word of each non-blank entry
FirstWords(entries) == [k \in 1..Len(entries) |-> WhiteSplit(entries[k])[1]]

SrcsetUrls(srcset) ==
    FirstWords(SelectSeq(SplitOn(srcset, ","), LAMBDA x : WhiteSplit(x) # <<>>))

\* keep the raw references that pass the scope check as written (no urljoin)
RawInScope(src, refs, at) ==
    With(SelectSeq(refs, LAMBDA x : x # <<>> /\ is_same_domain(src, x)), LAMBDA urls :
        Items(urls, "get", at))

\* scrape_image_sizes: img/source candidates, then inline-style url(...)
ImageSizesPlan(src, doc) ==
    LET G(e, k) == IF e.tag \in {"img", "source"}
                   THEN RawInScope(src, <<Or(Get(e, "src"), Get(e, "data-src"))>>
                                        \o SrcsetUrls(Or(Get(e, "srcset"), Get(e, "data-srcset"))), k)
                   ELSE <<>>
        B(e, k) == IF Has(e, "style") THEN RawInScope(src, CssUrls(e.attrs["style"]), k)
                   ELSE <<>>
    IN  ForEach(doc, G) \o ForEach(doc, B)

MetaProperties == {<<"og", ":", "image">>, <<"twitter", ":", "image">>}

\* scrape_meta_images: og:image and twitter:image
MetaImagesPlan(src, doc) ==
    LET M(e, k) == IF e.tag = "meta" /\ Get(e, "property") \in MetaProperties
                   THEN RawInScope(src, <<Get(e, "content")>>, k) ELSE <<>>
    IN  ForEach(doc, M)

DirectPlan(fn, src, doc) ==
    IF fn = "scrape_image_sizes" THEN ImageSizesPlan(src, doc) ELSE MetaImagesPlan(src, doc)

-----------------------------------------------------------------------------
(* The configuration of __main__ and the origins the crawl is run against  *)

ConfiguredSource == <<"http", ":", "/", "/", "helium", ":", "2368">>

ConfiguredTarget == <<"https", ":", "/", "/", "cadenkraft", ".", "com">>

\* scrape_root_files: root_files
root_files ==
    << <<"favicon", ".", "ico">>, <<"robots", ".", "txt">>, <<"sitemap", ".", "xml">>,
       <<"sitemap", "-", "authors", ".", "xml">>, <<"sitemap", "-", "pages", ".", "xml">>,
       <<"sitemap", "-", "posts", ".", "xml">>, <<"sitemap", "-", "tags", ".", "xml">> >>

U(path) == ConfiguredSource \o path

Html(doc) == [ctype |-> <<"text", "/", "html">>, doc |-> doc]

File(ctype) == [ctype |-> ctype, doc |-> <<>>]

\* a response whose body is text that is not markup
Text(ctype, body) == [ctype |-> ctype, doc |-> <<ElText("", body)>>]

Jpeg == File(<<"image", "/", "jpeg">>)

Css == File(<<"text", "/", "css">>)

Js == File(<<"application", "/", "javascript">>)

Xml == File(<<"application", "/", "xml">>)

Plain == File(<<"text", "/", "plain">>)

Stylesheet == <<"stylesheet">>

\* a blog: pages that link each other and the home page, a linked root file
HomeLinks ==
    << El("link", [rel |-> Stylesheet, href |-> <<"/", "s", ".", "css">>]),
       El("a", [href |-> <<"/", "p", "/">>]),
       El("a", [href |-> <<"/">>]),
       El("a", [href |-> <<"http", ":", "/", "/", "cdn", "/", "x", ".", "js">>]),
       El("a", [href |-> <<"/", "sitemap", ".", "xml">>]),
       El("img", [src |-> <<"/", "a", ".", "jpg">>]) >>

PostLinks ==
    << El("a", [href |-> <<".", ".", "/">>]),
       El("a", [href |-> <<"/", "p", "/">>]),
       El("script", [src |-> <<"s", ".", "js">>]) >>

SiteLinks ==
    (U(<<>>) :> Html(HomeLinks)) @@ (U(<<"/">>) :> Html(HomeLinks))
    @@ (U(<<"/", "p", "/">>) :> Html(PostLinks))
    @@ (U(<<"/", "s", ".", "css">>)
            :> Text(<<"text", "/", "css">>,
                    <<"a", "{", "background", ":", "url", "(">> \o U(<<"/", "a", ".", "jpg", ")", "}">>)))
    @@ (U(<<"/", "a", ".", "jpg">>) :> Jpeg)
    @@ (U(<<"/", "sitemap", ".", "xml">>) :> Xml)
    @@ (U(<<"/", "robots", ".", "txt">>) :> Plain)
    @@ (U(<<"/", "favicon", ".", "ico">>) :> File(<<"image", "/", "x", "-", "icon">>))

\* pages that embed frames: each other, an https frame, a frame of another site
HomeFrames ==
    << El("a", [href |-> <<"/", "p", "/">>]),
       El("iframe", [src |-> <<"/", "w", ".", "html">>]),
       El("iframe", [src |-> <<"http", ":", "/", "/", "cdn", "/", "e", ".", "html">>]) >>

WidgetFrame ==
    << El("script", [src |-> <<"w", ".", "js">>]),
       El("link", [rel |-> Stylesheet, href |-> <<"w", ".", "css">>]),
       El("img", [src |-> <<"/", "a", ".", "jpg">>]),
       El("iframe", [src |-> <<"/", "p", "/">>]),
       ElText("script", <<"load", "(", "'", "img", "/", "x", ".", "png", "'", ")">>) >>

PostFrames ==
    << El("iframe", [src |-> <<"/", "w", ".", "html">>]),
       El("iframe", [src |-> <<"https", ":", "/", "/", "helium", ":", "2368", "/", "v", ".", "html">>]),
       El("img", [src |-> <<"/", "b", ".", "png">>]),
       ElText("style", <<"p", "{", "background", ":", "url", "(", "/", "f", ".", "gif", ")", "}">>) >>

BareLinkFrame ==
    << El("link", [rel |-> Stylesheet]),
       El("img", [src |-> <<"v", ".", "png">>]) >>

SiteFrames ==
    (U(<<>>) :> Html(HomeFrames))
    @@ (U(<<"/", "p", "/">>) :> Html(PostFrames))
    @@ (U(<<"/", "w", ".", "html">>) :> Html(WidgetFrame))
    @@ (<<"https", ":", "/", "/", "helium", ":", "2368", "/", "v", ".", "html">> :> Html(BareLinkFrame))
    @@ (U(<<"/", "w", ".", "js">>) :> Js)
    @@ (U(<<"/", "w", ".", "css">>) :> Css)
    @@ (U(<<"/", "a", ".", "jpg">>) :> Jpeg)
    @@ (U(<<"/", "img", "/", "x", ".", "png">>) :> Jpeg)
    @@ (U(<<"/", "b", ".", "png">>) :> Jpeg)
    @@ (U(<<"/", "f", ".", "gif">>) :> File(<<"image", "/", "gif">>))

\* a page of images: responsive candidates, preview metadata, CSS backgrounds
\* and images of other authorities
HomeImages ==
    << El("meta", [property |-> <<"og", ":", "image">>, content |-> U(<<"/", "a", ".", "jpg">>)]),
       El("meta", [property |-> <<"twitter", ":", "image">>, content |-> <<"/", "t", ".", "png">>]),
       El("img", [src |-> U(<<"/", "a", ".", "jpg">>),
                  srcset |-> U(<<"/", "a", "-", "400", ".", "jpg", " ", "400w", ",", " ">>)
                             \o <<"/", "a", "-", "800", ".", "jpg", " ", "800w">>]),
       ElText("style", <<"body", "{", "background", ":", "url", "(", "'", "/", "bg", ".", "png", "'", ")", "}">>),
       El("div", [style |-> <<"background", ":", "url", "(">> \o U(<<"/", "c", ".", "png", ")">>)]),
       El("p", [style |-> <<"background", ":", "url", "(", "/", "d", ".", "gif", ")", ",",
                            "url", "(", "/", "e", ".", "gif", ")">>]),
       El("img", [src |-> <<"http", ":", "/", "/", "cdn", "/", "i", ".", "png">>,
                  srcset |-> <<"http", ":", "/", "/", "helium", "/", "i", "-", "400", ".", "png", " ", "400w">>]),
       El("meta", [property |-> <<"twitter", ":", "image">>,
                   content |-> <<"/", "/", "cdn", "/", "m", ".", "png">>]),
       El("div", [style |-> <<"background", ":", "url", "(", "http", ":", "/", "/", "cdn", "/", "k", ".", "gif", ")">>]) >>

SiteImages ==
    (U(<<>>) :> Html(HomeImages))
    @@ (U(<<"/", "a", ".", "jpg">>) :> Jpeg)
    @@ (U(<<"/", "a", "-", "400", ".", "jpg">>) :> Jpeg)
    @@ (U(<<"/", "a", "-", "800", ".", "jpg">>) :> Jpeg)
    @@ (U(<<"/", "bg", ".", "png">>) :> Jpeg)
    @@ (U(<<"/", "d", ".", "gif">>) :> File(<<"image", "/", "gif">>))
    @@ (U(<<"/", "e", ".", "gif">>) :> File(<<"image", "/", "gif">>))

\* two pages that embed each other, the second also linked from the first
HomeEmbeds ==
    << El("a", [href |-> <<"/", "q", "/">>]),
       El("iframe", [src |-> <<"/", "q", "/">>]),
       ElText("style", <<"a", "{", "background", ":", "url", "(", "/", "g", ".", "gif", ")", "}">>) >>

PageEmbeds ==
    << El("iframe", [src |-> <<".", ".", "/">>]),
       El("img", [src |-> <<"q", ".", "png">>]) >>

SiteEmbeds ==
    (U(<<>>) :> Html(HomeEmbeds)) @@ (U(<<"/">>) :> Html(HomeEmbeds))
    @@ (U(<<"/", "q", "/">>) :> Html(PageEmbeds))
    @@ (U(<<"/", "q", "/", "q", ".", "png">>) :> Jpeg)
    @@ (U(<<"/", "g", ".", "gif">>) :> File(<<"image", "/", "gif">>))

Sites == {SiteLinks, SiteFrames, SiteImages, SiteEmbeds}

-----------------------------------------------------------------------------
(* The call stack.  A frame is [fn, url, pc, i, soup, plan]: the function, *)
(* its URL argument, where it is, its loop index, (process_html) the       *)
(* parsed document it mutates, and the items its loops iterate over, taken *)
(* from the document when it is parsed.  The innermost frame runs.         *)

Frame(fn, url) ==
    [fn |-> fn, url |-> url, pc |-> "start", i |-> 1, soup |-> <<>>, plan |-> <<>>]

Top == stack[Len(stack)]

Running(fn, pc) == stack # <<>> /\ exc = "none" /\ Top.fn = fn /\ Top.pc = pc

Return == SubSeq(stack, 1, Len(stack) - 1)

Goto(f) == [stack EXCEPT ![Len(stack)] = f]

\* the running frame becomes f and calls callee
Call(f, callee) == Append(Goto(f), callee)

CanCall == Len(stack) < MaxDepth

\* what a file holds: the bytes of a response ("bytes"), its text ("text"),
\* or a re-serialized document ("soup", with the document)
Content(ser, of, doc) == [ser |-> ser, of |-> of, doc |-> doc]

Requested(url) ==
    [u \in DOMAIN fetches \cup {url} |->
        IF u = url THEN (IF u \in DOMAIN fetches THEN fetches[u] ELSE 0) + 1
        ELSE fetches[u]]

\* a request answered with a 2xx status
Answers(url) == url \in DOMAIN site

\* requests.get raises (time-out, connection error) when the transport fails
TransportFails == failures < MaxFailures

\* the branch of scrape_url a content type takes
Branch(ctype) ==
    IF Contains(ctype, <<"text", "/", "html">>) THEN "html"
    ELSE IF Contains1(ctype, "image") THEN "image"
    ELSE IF Contains(ctype, <<"text", "/", "css">>) \/ Contains1(ctype, "javascript")
            \/ Contains1(ctype, "application") THEN "asset"
    ELSE "other"

\* scrape_url with no except clause
HandlerOutsideScrapeUrl(fn, pc, e) ==
    CASE fn = "scrape_iframe_content" /\ e = "RequestException" -> "return"
      [] fn \in {"scrape_image_sizes", "scrape_meta_images"} /\ e = "RequestException"
            -> IF pc = "get" THEN "return" ELSE "continue"
      [] OTHER -> "raise"

\* what the frame fn, at pc, does with exception e raised inside it:
\* "sleep" (scrape_url: log, go on to the delay), "return", "continue" (the
\* loop's next item), or "raise" (no handler: the caller gets it)
Handler(fn, pc, e) ==
    CASE fn = "scrape_url" /\ pc \in {"get", "in_html", "in_sizes", "in_meta"} -> "sleep"
      [] fn = "scrape_iframe_content" /\ e = "RequestException" -> "return"
      [] fn \in {"scrape_image_sizes", "scrape_meta_images"} /\ e = "RequestException"
            -> IF pc = "get" THEN "return" ELSE "continue"
      [] OTHER -> "raise"

\* the history: failed maps a URL whose request has failed to the number of
\* requests issued for it by then, gets maps a URL to the number of requests
\* scrape_url has issued for it, saves maps a path to the callers of save_file
\* that have written it, each <<function, URL>>, invoked holds the <<image,
\* format>> pairs an encoder has been run for, slept tells that time.sleep has
\* been called since the last request, rushed that a request was issued with
\* no time.sleep since the request before it
NoLog == [failed |-> <<>>, gets |-> <<>>, saves |-> <<>>, invoked |-> {},
          slept |-> TRUE, rushed |-> FALSE]

\* requests.get is called
Asked(lg) == [lg EXCEPT !.rushed = @ \/ ~lg.slept, !.slept = FALSE]

Failed(lg, url) ==
    IF url \in DOMAIN lg.failed THEN lg
    ELSE [lg EXCEPT !.failed = [u \in DOMAIN lg.failed \cup {url} |->
                                  IF u = url THEN Requested(url)[url] ELSE lg.failed[u]]]

Got(lg, url) ==
    [lg EXCEPT !.gets = [u \in DOMAIN lg.gets \cup {url} |->
                           IF u = url THEN (IF u \in DOMAIN lg.gets THEN lg.gets[u] ELSE 0) + 1
                           ELSE lg.gets[u]]]

Saved(lg, fn, url) ==
    With(local_path(url), LAMBDA p :
        [lg EXCEPT !.saves = [q \in DOMAIN lg.saves \cup {p} |->
                                (IF q \in DOMAIN lg.saves THEN lg.saves[q] ELSE {})
                                \cup (IF q = p THEN {<<fn, url>>} ELSE {})]])

config == <<source_url, target_url, site, call, force_reconvert, encoders, trace>>

crawlFrame == <<config, log>>

-----------------------------------------------------------------------------
(* scrape_site and scrape_root_files *)

ScrapeSiteSeed ==
    /\ Running("scrape_site", "start") /\ CanCall
    /\ stack' = Call([Top EXCEPT !.pc = "in_seed"], Frame("scrape_url", source_url))
    /\ UNCHANGED <<visited_urls, file_urls, files, exc, fetches, failures, crawlFrame>>

\* scrape_site without its second statement
ScrapeSiteSeedOnly ==
    /\ Running("scrape_site", "in_seed")
    /\ stack' = Return
    /\ UNCHANGED <<visited_urls, file_urls, files, exc, fetches, failures, crawlFrame>>

ScrapeSiteRootFiles ==
    /\ Running("scrape_site", "in_seed") /\ CanCall
    /\ stack' = Call([Top EXCEPT !.pc = "in_roots"], Frame("scrape_root_files", <<>>))
    /\ UNCHANGED <<visited_urls, file_urls, files, exc, fetches, failures, crawlFrame>>

ScrapeSiteReturn ==
    /\ Running("scrape_site", "in_roots")
    /\ stack' = Return
    /\ UNCHANGED <<visited_urls, file_urls, files, exc, fetches, failures, crawlFrame>>

RootFilesNext ==
    /\ Running("scrape_root_files", "start") /\ CanCall
    /\ Top.i <= Len(root_files)
    /\ stack' = Call([Top EXCEPT !.i = @ + 1],
                     Frame("scrape_url", urljoin(source_url, root_files[Top.i])))
    /\ UNCHANGED <<visited_urls, file_urls, files, exc, fetches, failures, crawlFrame>>

RootFilesReturn ==
    /\ Running("scrape_root_files", "start")
    /\ Top.i > Len(root_files)
    /\ stack' = Return
    /\ UNCHANGED <<visited_urls, file_urls, files, exc, fetches, failures, crawlFrame>>

-----------------------------------------------------------------------------
(* scrape_url *)

\* scrape_url that goes on to the request for a URL it has noted
ScrapeUrlAgain ==
    /\ Running("scrape_url", "start")
    /\ Top.url \in visited_urls
    /\ stack' = Goto([Top EXCEPT !.pc = "get"])
    /\ UNCHANGED <<visited_urls, file_urls, files, exc, fetches, failures, crawlFrame>>

\* if url in self.visited_urls: return
ScrapeUrlSkip ==
    /\ Running("scrape_url", "start")
    /\ Top.url \in visited_urls
    /\ stack' = Return
    /\ UNCHANGED <<visited_urls, file_urls, files, exc, fetches, failures, crawlFrame>>

\* scrape_url that goes on to the request without noting the URL
ScrapeUrlUnmarked ==
    /\ Running("scrape_url", "start")
    /\ Top.url \notin visited_urls
    /\ stack' = Goto([Top EXCEPT !.pc = "get"])
    /\ UNCHANGED <<visited_urls, file_urls, files, exc, fetches, failures, crawlFrame>>

\* self.visited_urls.add(url)
ScrapeUrlMark ==
    /\ Running("scrape_url", "start")
    /\ Top.url \notin visited_urls
    /\ visited_urls' = visited_urls \cup {Top.url}
    /\ stack' = Goto([Top EXCEPT !.pc = "get"])
    /\ UNCHANGED <<file_urls, files, exc, fetches, failures, crawlFrame>>

\* requests.get / raise_for_status raise: an error status, or the transport fails
ScrapeUrlGetFails ==
    /\ Running("scrape_url", "get")
    /\ ~Answers(Top.url) \/ TransportFails
    /\ fetches' = Requested(Top.url)
    /\ failures' = IF Answers(Top.url) THEN failures + 1 ELSE failures
    /\ exc' = "RequestException"
    /\ log' = Asked(Failed(Got(log, Top.url), Top.url))
    /\ UNCHANGED <<visited_urls, file_urls, files, stack, config>>

\* 'text/html' in content_type: self.process_html(url, response.text)
ScrapeUrlGetHtml ==
    /\ Running("scrape_url", "get") /\ CanCall
    /\ Answers(Top.url) /\ Branch(site[Top.url].ctype) = "html"
    /\ fetches' = Requested(Top.url)
    /\ stack' = Call([Top EXCEPT !.pc = "in_html"],
                     [Frame("process_html", Top.url) EXCEPT
                        !.soup = site[Top.url].doc,
                        !.plan = ProcessHtmlPlan(source_url, Top.url, site[Top.url].doc)])
    /\ log' = Asked(Got(log, Top.url))
    /\ UNCHANGED <<visited_urls, file_urls, files, exc, failures, config>>

\* the other branches: save the bytes; images and assets are also noted in file_urls
ScrapeUrlGetFile ==
    /\ Running("scrape_url", "get")
    /\ Answers(Top.url) /\ Branch(site[Top.url].ctype) # "html"
    /\ fetches' = Requested(Top.url)
    /\ file_urls' = IF Branch(site[Top.url].ctype) \in {"image", "asset"}
                    THEN file_urls \cup {Top.url} ELSE file_urls
    /\ files' = save_file(files, Top.url, Content("bytes", Top.url, <<>>))
    /\ stack' = Goto([Top EXCEPT !.pc = "sleep"])
    /\ log' = Asked(Saved(Got(log, Top.url), "scrape_url", Top.url))
    /\ UNCHANGED <<visited_urls, exc, failures, config>>

\* self.scrape_image_sizes(url)
ScrapeUrlImageSizes ==
    /\ Running("scrape_url", "in_html") /\ CanCall
    /\ stack' = Call([Top EXCEPT !.pc = "in_sizes"], Frame("scrape_image_sizes", Top.url))
    /\ UNCHANGED <<visited_urls, file_urls, files, exc, fetches, failures, crawlFrame>>

\* self.scrape_meta_images(url)
ScrapeUrlMetaImages ==
    /\ Running("scrape_url", "in_sizes") /\ CanCall
    /\ stack' = Call([Top EXCEPT !.pc = "in_meta"], Frame("scrape_meta_images", Top.url))
    /\ UNCHANGED <<visited_urls, file_urls, files, exc, fetches, failures, crawlFrame>>

\* time.sleep(0.1), return
ScrapeUrlSleep ==
    /\ stack # <<>> /\ exc = "none" /\ Top.fn = "scrape_url"
    /\ Top.pc \in {"in_meta", "sleep"}
    /\ stack' = Return
    /\ log' = [log EXCEPT !.slept = TRUE]
    /\ UNCHANGED <<visited_urls, file_urls, files, exc, fetches, failures, config>>

-----------------------------------------------------------------------------
(* exceptions *)

\* an except clause of the running frame takes the exception
Catch ==
    /\ stack # <<>> /\ exc # "none"
    /\ Handler(Top.fn, Top.pc, exc) # "raise"
    /\ stack' = CASE Handler(Top.fn, Top.pc, exc) = "sleep" -> Goto([Top EXCEPT !.pc = "sleep"])
                  [] Handler(Top.fn, Top.pc, exc) = "continue" -> Goto([Top EXCEPT !.i = @ + 1])
                  [] OTHER -> Return
    /\ exc' = "none"
    /\ UNCHANGED <<visited_urls, file_urls, files, fetches, failures, crawlFrame>>

\* no except clause of the running frame takes it: the frame is left, the caller gets it
Propagate ==
    /\ stack # <<>> /\ exc # "none"
    /\ Handler(Top.fn, Top.pc, exc) = "raise"
    /\ stack' = Return
    /\ UNCHANGED <<visited_urls, file_urls, files, exc, fetches, failures, crawlFrame>>

-----------------------------------------------------------------------------
(* process_html *)

\* process_html that goes on to the loops without the first save
ProcessHtmlParse ==
    /\ Running("process_html", "start")
    /\ stack' = Goto([Top EXCEPT !.pc = "loop"])
    /\ UNCHANGED <<visited_urls, file_urls, files, exc, fetches, failures, crawlFrame>>

\* self.save_file(url, html_content, '.html')
ProcessHtmlSaveRaw ==
    /\ Running("process_html", "start")
    /\ files' = save_file(files, Top.url, Content("text", Top.url, <<>>))
    /\ stack' = Goto([Top EXCEPT !.pc = "loop"])
    /\ log' = Saved(log, "process_html", Top.url)
    /\ UNCHANGED <<visited_urls, file_urls, exc, fetches, failures, config>>

\* self.scrape_url(new_url) / self.scrape_url(full_url) of the tag and style loops
ProcessHtmlScrape ==
    /\ Running("process_html", "loop") /\ CanCall
    /\ Top.i <= Len(Top.plan) /\ Top.plan[Top.i].kind = "url"
    /\ stack' = Call([Top EXCEPT !.i = @ + 1], Frame("scrape_url", Top.plan[Top.i].url))
    /\ UNCHANGED <<visited_urls, file_urls, files, exc, fetches, failures, crawlFrame>>

\* self.scrape_iframe_content(iframe_url)
ProcessHtmlIframe ==
    /\ Running("process_html", "loop") /\ CanCall
    /\ Top.i <= Len(Top.plan) /\ Top.plan[Top.i].kind = "iframe"
    /\ stack' = Call([Top EXCEPT !.pc = "in_iframe"],
                     Frame("scrape_iframe_content", Top.plan[Top.i].url))
    /\ UNCHANGED <<visited_urls, file_urls, files, exc, fetches, failures, crawlFrame>>

\* iframe['src'] = self.update_url(iframe_url)
ProcessHtmlIframeSrc ==
    /\ Running("process_html", "in_iframe")
    /\ stack' = Goto([Top EXCEPT
                        !.soup[Top.plan[Top.i].at].attrs["src"] =
                            update_url(source_url, target_url, Top.plan[Top.i].url),
                        !.i = @ + 1, !.pc = "loop"])
    /\ UNCHANGED <<visited_urls, file_urls, files, exc, fetches, failures, crawlFrame>>

\* updated_html = str(soup); self.save_file(url, updated_html, '.html')
ProcessHtmlSaveSoup ==
    /\ Running("process_html", "loop")
    /\ Top.i > Len(Top.plan)
    /\ files' = save_file(files, Top.url, Content("soup", Top.url, Top.soup))
    /\ stack' = Return
    /\ log' = Saved(log, "process_html", Top.url)
    /\ UNCHANGED <<visited_urls, file_urls, exc, fetches, failures, config>>

-----------------------------------------------------------------------------
(* scrape_iframe_content *)

\* if not self.is_same_domain(iframe_src): return
IframeEnter ==
    /\ Running("scrape_iframe_content", "start")
    /\ stack' = IF is_same_domain(source_url, Top.url)
                THEN Goto([Top EXCEPT !.pc = "get"]) ELSE Return
    /\ UNCHANGED <<visited_urls, file_urls, files, exc, fetches, failures, crawlFrame>>

IframeGetFails ==
    /\ Running("scrape_iframe_content", "get")
    /\ ~Answers(Top.url) \/ TransportFails
    /\ fetches' = Requested(Top.url)
    /\ failures' = IF Answers(Top.url) THEN failures + 1 ELSE failures
    /\ exc' = "RequestException"
    /\ log' = Asked(Failed(log, Top.url))
    /\ UNCHANGED <<visited_urls, file_urls, files, stack, config>>

\* self.save_file(iframe_src, iframe_content, '.html')
IframeGetOk ==
    /\ Running("scrape_iframe_content", "get")
    /\ Answers(Top.url)
    /\ fetches' = Requested(Top.url)
    /\ files' = save_file(files, Top.url, Content("text", Top.url, <<>>))
    /\ stack' = Goto([Top EXCEPT !.pc = "loop",
                                 !.plan = IframePlan(source_url, Top.url, site[Top.url].doc)])
    /\ log' = Asked(Saved(log, "scrape_iframe_content", Top.url))
    /\ UNCHANGED <<visited_urls, file_urls, exc, failures, config>>

\* self.scrape_url(script_src / css_src / img_src / resource_url)
IframeScrape ==
    /\ Running("scrape_iframe_content", "loop") /\ CanCall
    /\ Top.i <= Len(Top.plan) /\ Top.plan[Top.i].kind = "url"
    /\ stack' = Call([Top EXCEPT !.i = @ + 1], Frame("scrape_url", Top.plan[Top.i].url))
    /\ UNCHANGED <<visited_urls, file_urls, files, exc, fetches, failures, crawlFrame>>

\* link['href'] of a stylesheet link that has no href
IframeKeyError ==
    /\ Running("scrape_iframe_content", "loop")
    /\ Top.i <= Len(Top.plan) /\ Top.plan[Top.i].kind = "KeyError"
    /\ exc' = "KeyError"
    /\ UNCHANGED <<visited_urls, file_urls, files, stack, fetches, failures, crawlFrame>>

IframeReturn ==
    /\ Running("scrape_iframe_content", "loop")
    /\ Top.i > Len(Top.plan)
    /\ stack' = Return
    /\ UNCHANGED <<visited_urls, file_urls, files, exc, fetches, failures, crawlFrame>>

-----------------------------------------------------------------------------
(* scrape_image_sizes and scrape_meta_images: fetch the page again, then   *)
(* fetch each image the page names, without the visited set                *)

DirectFetchers == {"scrape_image_sizes", "scrape_meta_images"}

IsDirect(pc) == stack # <<>> /\ exc = "none" /\ Top.fn \in DirectFetchers /\ Top.pc = pc

\* response = requests.get(url); response.raise_for_status() raise
DirectPageFails ==
    /\ IsDirect("start")
    /\ ~Answers(Top.url) \/ TransportFails
    /\ fetches' = Requested(Top.url)
    /\ failures' = IF Answers(Top.url) THEN failures + 1 ELSE failures
    /\ exc' = "RequestException"
    /\ stack' = Goto([Top EXCEPT !.pc = "get"])
    /\ log' = Asked(Failed(log, Top.url))
    /\ UNCHANGED <<visited_urls, file_urls, files, config>>

\* soup = BeautifulSoup(response.text, 'html.parser')
DirectPageOk ==
    /\ IsDirect("start")
    /\ Answers(Top.url)
    /\ fetches' = Requested(Top.url)
    /\ stack' = Goto([Top EXCEPT !.pc = "loop",
                                 !.plan = DirectPlan(Top.fn, source_url, site[Top.url].doc)])
    /\ log' = Asked(log)
    /\ UNCHANGED <<visited_urls, file_urls, files, exc, failures, config>>

\* img_response.status_code == 200: note it in file_urls, save the bytes
DirectImageOk ==
    /\ IsDirect("loop")
    /\ Top.i <= Len(Top.plan) /\ Answers(Top.plan[Top.i].url)
    /\ fetches' = Requested(Top.plan[Top.i].url)
    /\ file_urls' = file_urls \cup {Top.plan[Top.i].url}
    /\ files' = save_file(files, Top.plan[Top.i].url,
                          Content("bytes", Top.plan[Top.i].url, <<>>))
    /\ stack' = Goto([Top EXCEPT !.i = @ + 1])
    /\ log' = Asked(Saved(log, Top.fn, Top.plan[Top.i].url))
    /\ UNCHANGED <<visited_urls, exc, failures, config>>

\* another status: a warning, the next image
DirectImageStatus ==
    /\ IsDirect("loop")
    /\ Top.i <= Len(Top.plan) /\ ~Answers(Top.plan[Top.i].url)
    /\ fetches' = Requested(Top.plan[Top.i].url)
    /\ stack' = Goto([Top EXCEPT !.i = @ + 1])
    /\ log' = Asked(Failed(log, Top.plan[Top.i].url))
    /\ UNCHANGED <<visited_urls, file_urls, files, exc, failures, config>>

\* requests.get raises inside the loop
DirectImageFails ==
    /\ IsDirect("loop")
    /\ Top.i <= Len(Top.plan) /\ TransportFails
    /\ fetches' = Requested(Top.plan[Top.i].url)
    /\ failures' = failures + 1
    /\ exc' = "RequestException"
    /\ log' = Asked(Failed(log, Top.plan[Top.i].url))
    /\ UNCHANGED <<visited_urls, file_urls, files, stack, config>>

DirectReturn ==
    /\ IsDirect("loop")
    /\ Top.i > Len(Top.plan)
    /\ stack' = Return
    /\ UNCHANGED <<visited_urls, file_urls, files, exc, fetches, failures, crawlFrame>>

-----------------------------------------------------------------------------
(* The crawl: scrape_site() on a generator as __init__ leaves it *)

NoCall == [op |-> "none", parts |-> <<>>, ret |-> <<>>]

\* the programs convert_images runs, one per format
Encoders == {"cwebp", "avifenc", "cjxl"}

Init ==
    /\ source_url = ConfiguredSource
    /\ target_url = ConfiguredTarget
    /\ visited_urls = {}
    /\ file_urls = {}
    /\ files = <<>>
    /\ site \in Sites
    /\ stack = <<Frame("scrape_site", <<>>)>>
    /\ exc = "none"
    /\ fetches = <<>>
    /\ failures = 0
    /\ call = NoCall
    /\ force_reconvert = FALSE
    /\ encoders = Encoders
    /\ trace = <<>>
    /\ log = NoLog

Next ==
    \/ ScrapeSiteSeed \/ ScrapeSiteRootFiles \/ ScrapeSiteReturn
    \/ RootFilesNext \/ RootFilesReturn
    \/ ScrapeUrlSkip \/ ScrapeUrlMark \/ ScrapeUrlGetFails \/ ScrapeUrlGetHtml
    \/ ScrapeUrlGetFile \/ ScrapeUrlImageSizes \/ ScrapeUrlMetaImages \/ ScrapeUrlSleep
    \/ Catch \/ Propagate
    \/ ProcessHtmlSaveRaw \/ ProcessHtmlScrape \/ ProcessHtmlIframe
    \/ ProcessHtmlIframeSrc \/ ProcessHtmlSaveSoup
    \/ IframeEnter \/ IframeGetFails \/ IframeGetOk \/ IframeScrape
    \/ IframeKeyError \/ IframeReturn
    \/ DirectPageFails \/ DirectPageOk \/ DirectImageOk \/ DirectImageStatus
    \/ DirectImageFails \/ DirectReturn

Spec == Init /\ [][Next]_vars

\* the interpreter runs the next statement: the crawl does not stop midway
FairSpec == Spec /\ WF_vars(Next)

-----------------------------------------------------------------------------
(* The stages of run() after the crawl.  Each works on the files of the    *)
(* tree; a frame's plan lists the files it has found, each [path, at], at  *)
(* "todo" until the file is done.                                          *)

runConfig == <<source_url, target_url, site, call, force_reconvert, encoders, visited_urls,
               file_urls, fetches>>

runFrame == <<runConfig, log>>

\* os.walk: the files of the tree that keep selects, in the order of the listing
RECURSIVE Listing(_)
Listing(P) ==
    IF P = {} THEN <<>>
    ELSE With(CHOOSE p \in P : TRUE, LAMBDA p : <<[path |-> p, at |-> "todo"]>> \o Listing(P \ {p}))

Walk(fs, keep(_)) == Listing({p \in DOMAIN fs : keep(p)})

Pending(plan) == {k \in 1..Len(plan) : plan[k].at = "todo"}

\* os.path.splitext of a path: the extension is what follows the last dot of
\* the file name, a dot that does not begin the name
ExtensionAt(p) ==
    LET name == Max({0} \cup {k \in 1..Len(p) : p[k] = "/"}) + 1
        dots == {k \in (name + 1)..Len(p) : p[k] = "."}
    IN  IF dots = {} THEN Len(p) + 1 ELSE Max(dots)

Stem(p) == Take(p, ExtensionAt(p))

Extension(p) == Drop(p, ExtensionAt(p))

\* str.lower of a file extension
LowerAll(s) == [k \in 1..Len(s) |-> Lower(s[k])]

\* str.endswith(suffix) of the file name
EndsWith(p, suffix) ==
    Len(p) >= Len(suffix) /\ SubSeq(p, Len(p) - Len(suffix) + 1, Len(p)) = suffix

\* os.path.exists under self.public_dir: a file, or a directory that holds one
Exists(fs, rel) ==
    \/ rel = <<>>
    \/ rel \in DOMAIN fs
    \/ \E q \in DOMAIN fs : StartsWith(q, rel \o <<"/">>)

\* the text that a file holds, as the document it parses to
Body(c) ==
    IF c.ser \in {"bytes", "text"}
    THEN (IF c.of \in DOMAIN site THEN site[c.of].doc ELSE <<>>)
    ELSE c.doc

-----------------------------------------------------------------------------
(* run, update_repo, copy_renders_folder, commit_and_push *)

Stages ==
    <<"update_repo", "scrape_site", "copy_renders_folder", "convert_images",
      "update_html_for_image_formats", "update_urls_in_all_files", "commit_and_push">>

\* run(): the next statement, a call of a stage
RunNext ==
    /\ Running("run", "start") /\ CanCall
    /\ Top.i <= Len(Stages)
    /\ trace' = Append(trace, Stages[Top.i])
    /\ stack' = Call([Top EXCEPT !.i = @ + 1], Frame(Stages[Top.i], <<>>))
    /\ UNCHANGED <<runFrame, files, exc, failures>>

RunReturn ==
    /\ Running("run", "start")
    /\ Top.i > Len(Stages)
    /\ stack' = Return
    /\ UNCHANGED <<runFrame, files, exc, failures, trace>>

\* update_repo: git pull or clone, every error caught and printed
UpdateRepo ==
    /\ Running("update_repo", "start")
    /\ stack' = Return
    /\ UNCHANGED <<runFrame, files, exc, failures, trace>>

\* commit_and_push: git add, commit, push, every error caught and printed
CommitAndPush ==
    /\ Running("commit_and_push", "start")
    /\ stack' = Return
    /\ UNCHANGED <<runFrame, files, exc, failures, trace>>

\* what /helium/ghost/ghost-backup/content/renders/ holds
Renders == {<<"r", ".", "png">>, <<"v", ".", "html">>}

\* what a file of the renders folder holds: the viewer page shows the render
RenderDoc(r) ==
    IF r = <<"v", ".", "html">>
    THEN <<El("img", [src |-> <<"/", "content", "/", "renders", "/", "r", ".", "png">>,
                      srcset |-> <<"/", "content", "/", "renders", "/", "r", ".", "png",
                                   " ", "400w">>])>>
    ELSE <<>>

RendersPath == <<"content", "/", "renders">>

\* copy_renders_folder: os.makedirs of the destination, outside the try, then
\* every file that is not in the destination (one that is there was written
\* by this run and is the newer) is copied
CopyRendersFolder ==
    /\ Running("copy_renders_folder", "start")
    /\ IF <<"content">> \in DOMAIN files \/ RendersPath \in DOMAIN files
       THEN /\ exc' = "FileExistsError"
            /\ UNCHANGED <<stack, files>>
       ELSE /\ files' = [q \in DOMAIN files \cup {RendersPath \o <<"/">> \o r : r \in Renders} |->
                            IF q \in DOMAIN files THEN files[q]
                            ELSE Content("copy", q, RenderDoc(Drop(q, Len(RendersPath) + 2)))]
            /\ stack' = Return
            /\ exc' = exc
    /\ UNCHANGED <<runFrame, failures, trace>>

-----------------------------------------------------------------------------
(* convert_images *)

Formats == <<"webp", "avif", "jxl">>

EncoderOf(fmt) ==
    CASE fmt = "webp" -> "cwebp" [] fmt = "avif" -> "avifenc" [] OTHER -> "cjxl"

\* f"{os.path.splitext(img_path)[0]}.{ext}"
Variant(img, fmt) == Stem(img) \o <<".", fmt>>

ImageExtensions == {<<".", "jpg">>, <<".", "jpeg">>, <<".", "png">>, <<".", "gif">>}

\* the condition under which convert_images lists a file
Eligible(fs, p) ==
    /\ \E x \in ImageExtensions : EndsWith(LowerAll(p), x)
    /\ force_reconvert \/ ~ \A k \in 1..Len(Formats) : Exists(fs, Variant(p, Formats[k]))

\* convert_to_webp, convert_to_avif, convert_to_jxl: "skipped" (the variant is
\* there), "ok", "failed" (logged, False returned) or "raise"; failing are the
\* formats whose encoder would exit with an error
Convert(fs, img, fmt, failing) ==
    IF Exists(fs, Variant(img, fmt)) /\ ~force_reconvert THEN "skipped"
    ELSE IF EncoderOf(fmt) \notin encoders THEN (IF fmt = "jxl" THEN "failed" ELSE "raise")
    ELSE IF fmt \in failing THEN "failed"
    ELSE "ok"

\* the formats process_image gets to: those before the first that raises
Attempted(fs, img, failing) ==
    {Formats[k] : k \in {k \in 1..Len(Formats) :
                           \A j \in 1..(k - 1) : Convert(fs, img, Formats[j], failing) # "raise"}}

Raises(fs, img, failing) ==
    \E fmt \in Attempted(fs, img, failing) : Convert(fs, img, fmt, failing) = "raise"

\* the formats process_image calls subprocess.run for
Invoked(fs, img, failing) ==
    {fmt \in Attempted(fs, img, failing) : Convert(fs, img, fmt, failing) # "skipped"}

\* the tree after process_image(img)
Converted(fs, img, failing) ==
    With({Variant(img, fmt) : fmt \in {f \in Attempted(fs, img, failing) :
                                         Convert(fs, img, f, failing) = "ok"}},
         LAMBDA out : [q \in DOMAIN fs \cup out |->
                          IF q \in out THEN Content("variant", img, <<>>) ELSE fs[q]])

ConvertImagesSubmit ==
    /\ Running("convert_images", "start")
    /\ stack' = Goto([Top EXCEPT !.pc = "pool",
                                 !.plan = Walk(files, LAMBDA p : Eligible(files, p))])
    /\ UNCHANGED <<runFrame, files, exc, failures, trace>>

\* a worker thread runs process_image on one of the submitted paths
ProcessImage ==
    /\ Running("convert_images", "pool")
    /\ \E k \in Pending(Top.plan), failing \in SUBSET {"webp", "avif", "jxl"} :
          /\ failures + Cardinality(failing) <= MaxFailures
          /\ \A fmt \in failing :
                /\ fmt \in Attempted(files, Top.plan[k].path, failing)
                /\ EncoderOf(fmt) \in encoders
                /\ Convert(files, Top.plan[k].path, fmt, failing) = "failed"
          /\ failures' = failures + Cardinality(failing)
          /\ files' = Converted(files, Top.plan[k].path, failing)
          /\ stack' = Goto([Top EXCEPT !.plan[k].at =
                               IF Raises(files, Top.plan[k].path, failing) THEN "raised"
                               ELSE "done"])
          /\ log' = [log EXCEPT !.invoked = @ \cup
                        {<<Top.plan[k].path, fmt>> :
                            fmt \in Invoked(files, Top.plan[k].path, failing)}]
    /\ UNCHANGED <<runConfig, exc, trace>>

\* future.result() of every future: the exception of a task is raised again,
\* once the pool has run every task
ConvertImagesResult ==
    /\ Running("convert_images", "pool")
    /\ Pending(Top.plan) = {}
    /\ IF \E k \in 1..Len(Top.plan) : Top.plan[k].at = "raised"
       THEN exc' = "FileNotFoundError" /\ stack' = stack
       ELSE exc' = exc /\ stack' = Return
    /\ UNCHANGED <<runFrame, files, failures, trace>>

-----------------------------------------------------------------------------
(* update_html_for_image_formats *)

\* ', '.join(parts)
RECURSIVE JoinComma(_)
JoinComma(parts) ==
    IF parts = <<>> THEN <<>>
    ELSE IF Len(parts) = 1 THEN parts[1]
    ELSE parts[1] \o <<",", " ">> \o JoinComma(Tail(parts))

\* re.sub(r'\.[^.]+$', '.' + fmt, url): what follows the last dot is replaced
SubExtension(url, fmt) ==
    LET dots == {k \in 1..Len(url) : url[k] = "."}
    IN  IF dots = {} \/ Max({0} \cup dots) = Len(url) THEN url
        ELSE Take(url, Max(dots)) \o <<".", fmt>>

\* url_to_local_path, relative to self.public_dir: [found, path], found false
\* for None
url_to_local_path(src, tgt, url) ==
    IF url # <<>> /\ url[1] = "/" THEN [found |-> TRUE, path |-> LStripSlash(url)]
    ELSE With(urlparse(url), LAMBDA parsed :
            IF parsed.netloc # <<>>
               /\ parsed.netloc \notin {urlparse(src).netloc, urlparse(tgt).netloc}
            THEN [found |-> FALSE, path |-> <<>>]
            ELSE [found |-> TRUE, path |-> LStripSlash(parsed.path)])

\* the srcset list of one format: a candidate for each entry of two words whose
\* variant file exists
Candidate(fs, src, tgt, entry, fmt) ==
    With(WhiteSplit(entry), LAMBDA parts :
        IF Len(parts) # 2 THEN <<>>
        ELSE With(SubExtension(parts[1], fmt), LAMBDA new_src :
                With(url_to_local_path(src, tgt, new_src), LAMBDA local :
                    IF local.found /\ Exists(fs, local.path)
                    THEN <<update_url(src, tgt, new_src) \o <<" ">> \o parts[2]>>
                    ELSE <<>>)))

Candidates(fs, src, tgt, srcset, fmt) ==
    With(SplitOn(srcset, ","), LAMBDA entries :
        Flatten([k \in 1..Len(entries) |-> Candidate(fs, src, tgt, entries[k], fmt)]))

\* soup.new_tag('source', type=...), with its srcset and the sizes of the img
Source(fmt, candidates, sizes) ==
    With(El("source", [type |-> <<"image", "/", fmt>>, srcset |-> JoinComma(candidates)]),
         LAMBDA e : IF sizes # <<>> THEN Put(e, "sizes", sizes) ELSE e)

\* picture.insert(0, source), format after format: the last inserted is first
Sources(fs, src, tgt, srcset, sizes) ==
    LET S(fmt) == With(Candidates(fs, src, tgt, srcset, fmt), LAMBDA c :
                      IF c # <<>> THEN <<Source(fmt, c, sizes)>> ELSE <<>>)
    IN  S("jxl") \o S("avif") \o S("webp")

\* the value img['srcset'] is given
UpdatedSrcset(src, tgt, srcset) ==
    With(SplitOn(srcset, ","), LAMBDA entries :
        JoinComma([k \in 1..Len(entries) |->
            With(WhiteSplit(entries[k]), LAMBDA parts :
                IF Len(parts) > 1 THEN update_url(src, tgt, parts[1]) \o <<" ">> \o parts[2]
                ELSE update_url(src, tgt, entries[k]))]))

\* the picture that picture.append(source) would build: the img first, then
\* the sources in the order of the formats list
PictureAppended(fs, src, tgt, img) ==
    With(Sources(fs, src, tgt, Or(Get(img, "srcset"), Get(img, "data-srcset")), Get(img, "sizes")),
         LAMBDA ss :
            [tag |-> "picture", attrs |-> <<>>, string |-> <<>>,
             kids |-> <<Put(Put(img, "src", update_url(src, tgt, Or(Get(img, "src"), Get(img, "data-src")))),
                            "loading", <<"lazy">>)>>
                      \o [k \in 1..Len(ss) |-> ss[Len(ss) + 1 - k]]])

\* the img of the loop body, rewritten, inside its new picture
Picture(fs, src, tgt, img) ==
    LET srcset == Or(Get(img, "srcset"), Get(img, "data-srcset"))
        img1 == Put(img, "src", update_url(src, tgt, Or(Get(img, "src"), Get(img, "data-src"))))
        img2 == IF srcset # <<>> THEN Put(img1, "srcset", UpdatedSrcset(src, tgt, srcset))
                ELSE img1
    IN  [tag |-> "picture", attrs |-> <<>>, string |-> <<>>,
         kids |-> Sources(fs, src, tgt, srcset, Get(img, "sizes"))
                  \o <<Put(img2, "loading", <<"lazy">>)>>]

\* for img in soup.find_all('img'): every img with a src, wherever it is
RECURSIVE WrapImages(_, _, _, _)
WrapImages(fs, src, tgt, els) ==
    [k \in 1..Len(els) |->
        IF els[k].tag = "img"
        THEN (IF Or(Get(els[k], "src"), Get(els[k], "data-src")) = <<>> THEN els[k]
              ELSE Picture(fs, src, tgt, els[k]))
        ELSE IF els[k].kids # <<>>
        THEN [els[k] EXCEPT !.kids = WrapImages(fs, src, tgt, els[k].kids)]
        ELSE els[k]]

\* soup.find('meta', property='og:image'): its position, 0 when there is none
OgImage(doc) ==
    With({k \in 1..Len(doc) : doc[k].tag = "meta" /\ Get(doc[k], "property") = <<"og", ":", "image">>},
         LAMBDA K : IF K = {} THEN 0 ELSE Min(K))

\* content.replace over the markup of a document: over every value and text
RECURSIVE ReplaceAll(_, _, _)
ReplaceAll(src, tgt, els) ==
    [k \in 1..Len(els) |->
        [tag |-> els[k].tag,
         attrs |-> [n \in DOMAIN els[k].attrs |-> Replace(els[k].attrs[n], src, tgt)],
         string |-> Replace(els[k].string, src, tgt),
         kids |-> ReplaceAll(src, tgt, els[k].kids)]]

\* the document that update_html_for_image_formats writes back for doc
Augmented(fs, src, tgt, doc) ==
    With(OgImage(doc), LAMBDA og :
        With(IF og = 0 THEN doc
             ELSE [doc EXCEPT ![og] = Put(@, "content", update_url(src, tgt, @.attrs["content"]))],
             LAMBDA d : ReplaceAll(src, tgt, WrapImages(fs, src, tgt, d))))

IsHtml(p) == EndsWith(p, <<".", "html">>)

FormatsWalk ==
    /\ Running("update_html_for_image_formats", "start")
    /\ stack' = Goto([Top EXCEPT !.pc = "files", !.plan = Walk(files, IsHtml)])
    /\ UNCHANGED <<runFrame, files, exc, failures, trace>>

\* the body of the loop for one .html file: og_image['content'] raises
\* KeyError when the meta has no content; the file is always written back
FormatsFile ==
    /\ Running("update_html_for_image_formats", "files")
    /\ \E k \in Pending(Top.plan) :
          LET p == Top.plan[k].path
              doc == Body(files[p])
          IN  IF OgImage(doc) # 0 /\ ~Has(doc[Max({1, OgImage(doc)})], "content")
              THEN /\ exc' = "KeyError"
                   /\ UNCHANGED <<stack, files>>
              ELSE /\ files' = Write(files, p, Content("soup", files[p].of,
                                         Augmented(files, source_url, target_url, doc)))
                   /\ stack' = Goto([Top EXCEPT !.plan[k].at = "done"])
                   /\ exc' = exc
    /\ UNCHANGED <<runFrame, failures, trace>>

FormatsReturn ==
    /\ Running("update_html_for_image_formats", "files")
    /\ Pending(Top.plan) = {}
    /\ stack' = Return
    /\ UNCHANGED <<runFrame, files, exc, failures, trace>>

-----------------------------------------------------------------------------
(* update_urls_in_all_files *)

RewrittenExtensions ==
    {<<".", "html">>, <<".", "xml">>, <<".", "css">>, <<".", "js">>, <<".", "json">>}

IsRewritten(p) == LowerAll(Extension(p)) \in RewrittenExtensions

\* for iframe in soup.find_all('iframe'): iframe['src'] = self.update_url(src)
RECURSIVE UpdateIframes(_, _, _)
UpdateIframes(src, tgt, els) ==
    [k \in 1..Len(els) |->
        IF els[k].tag = "iframe" /\ Get(els[k], "src") # <<>>
        THEN Put(els[k], "src", update_url(src, tgt, els[k].attrs["src"]))
        ELSE IF els[k].kids # <<>>
        THEN [els[k] EXCEPT !.kids = UpdateIframes(src, tgt, els[k].kids)]
        ELSE els[k]]

\* updated_content for the file at p: every occurrence replaced and, for
\* .html, the document parsed, its iframes updated, and serialized again
Rewritten(src, tgt, p, c) ==
    IF LowerAll(Extension(p)) = <<".", "html">>
    THEN Content("soup", c.of, UpdateIframes(src, tgt, ReplaceAll(src, tgt, Body(c))))
    ELSE Content(IF c.ser = "bytes" THEN "str" ELSE c.ser, c.of, ReplaceAll(src, tgt, Body(c)))

\* updated_content != content: the text differs when the document does, and
\* the markup as the origin served it is not what str(soup) writes
Differs(old, new) == new.doc # Body(old) \/ (new.ser = "soup" /\ old.ser # "soup")

RewriteWalk ==
    /\ Running("update_urls_in_all_files", "start")
    /\ stack' = Goto([Top EXCEPT !.pc = "files", !.plan = Walk(files, IsRewritten)])
    /\ UNCHANGED <<runFrame, files, exc, failures, trace>>

\* the body of the loop for one file: written only when its text has changed
RewriteFile ==
    /\ Running("update_urls_in_all_files", "files")
    /\ \E k \in Pending(Top.plan) :
          LET p == Top.plan[k].path
              new == Rewritten(source_url, target_url, p, files[p])
          IN  /\ files' = IF Differs(files[p], new) THEN Write(files, p, new) ELSE files
              /\ stack' = Goto([Top EXCEPT !.plan[k].at = "done"])
    /\ UNCHANGED <<runFrame, exc, failures, trace>>

RewriteReturn ==
    /\ Running("update_urls_in_all_files", "files")
    /\ Pending(Top.plan) = {}
    /\ stack' = Return
    /\ UNCHANGED <<runFrame, files, exc, failures, trace>>

-----------------------------------------------------------------------------
(* run() on a generator as __init__ leaves it, on a machine that may lack   *)
(* an encoder                                                              *)

EncoderSets == {Encoders, Encoders \ {"cjxl"}, Encoders \ {"avifenc"}}

InitRun ==
    /\ source_url = ConfiguredSource
    /\ target_url = ConfiguredTarget
    /\ visited_urls = {}
    /\ file_urls = {}
    /\ files = <<>>
    /\ site \in Sites
    /\ stack = <<Frame("run", <<>>)>>
    /\ exc = "none"
    /\ fetches = <<>>
    /\ failures = 0
    /\ call = NoCall
    /\ force_reconvert = FALSE
    /\ encoders \in EncoderSets
    /\ trace = <<>>
    /\ log = NoLog

NextRun ==
    \/ RunNext \/ RunReturn \/ UpdateRepo \/ CommitAndPush \/ CopyRendersFolder
    \/ ConvertImagesSubmit \/ ProcessImage \/ ConvertImagesResult
    \/ FormatsWalk \/ FormatsFile \/ FormatsReturn
    \/ RewriteWalk \/ RewriteFile \/ RewriteReturn
    \/ Next

SpecRun == InitRun /\ [][NextRun]_vars

-----------------------------------------------------------------------------
(* run() called a second time, by a new process, on the tree the first left *)

\* the first run is over and every request of it was answered as the origin
\* answers it: a new generator is made and run() is called, call.ret keeping
\* the tree that the first run left
RunAgain ==
    /\ stack = <<>> /\ call.op = "none" /\ failures = 0
    /\ call' = [op |-> "run", parts |-> <<>>, ret |-> files]
    /\ stack' = <<Frame("run", <<>>)>>
    /\ visited_urls' = {} /\ file_urls' = {} /\ fetches' = <<>>
    /\ exc' = "none" /\ trace' = <<>> /\ log' = NoLog
    /\ UNCHANGED <<source_url, target_url, files, site, failures, force_reconvert, encoders>>

NextTwice == NextRun \/ RunAgain

SpecTwice == InitRun /\ [][NextTwice]_vars

-----------------------------------------------------------------------------
(* convert_images called on a tree that holds images and earlier variants *)

Images == {<<"a", ".", "jpg">>, <<"img", "/", "b", ".", "JPG">>}

SameStemImage == <<"a", ".", "png">>

EarlierVariants ==
    {<<"a", ".", "webp">>, <<"a", ".", "avif">>, <<"a", ".", "jxl">>,
     <<"img", "/", "b", ".", "webp">>}

\* a tree: a page, the images, some variants an earlier run has written
ImageStore(I, V) ==
    [q \in {<<"index", ".", "html">>} \cup I \cup V |->
        IF q \in V THEN Content("variant", <<"earlier">>, <<>>)
        ELSE IF q \in I THEN Content("bytes", ConfiguredSource \o <<"/">> \o q, <<>>)
        ELSE Content("soup", ConfiguredSource, <<>>)]

InitConvert ==
    /\ source_url = ConfiguredSource
    /\ target_url = ConfiguredTarget
    /\ visited_urls = {}
    /\ file_urls = {}
    /\ \E I \in {Images, Images \cup {SameStemImage}}, V \in SUBSET EarlierVariants :
          /\ files = ImageStore(I, V)
          /\ call = [op |-> "convert_images", parts |-> <<>>, ret |-> ImageStore(I, V)]
    /\ site = <<>>
    /\ stack = <<Frame("convert_images", <<>>)>>
    /\ exc = "none"
    /\ fetches = <<>>
    /\ failures = 0
    /\ force_reconvert \in BOOLEAN
    /\ encoders \in EncoderSets
    /\ trace = <<>>
    /\ log = NoLog

NextConvert == ConvertImagesSubmit \/ ProcessImage \/ ConvertImagesResult \/ Propagate

SpecConvert == InitConvert /\ [][NextConvert]_vars

-----------------------------------------------------------------------------
(* update_html_for_image_formats called on a tree that holds one page, its  *)
(* images, and some of their variants                                      *)

\* the candidates of the page's img: the stem of the file and the width
Responsive ==
    << [stem |-> <<"a", "-", "400">>, width |-> <<"400w">>],
       [stem |-> <<"a", "-", "800">>, width |-> <<"800w">>] >>

\* the srcset that names them, each URL written after prefix
SrcsetOf(prefix) ==
    JoinComma([k \in 1..Len(Responsive) |->
                 prefix \o <<"/">> \o Responsive[k].stem \o <<".", "jpg", " ">> \o Responsive[k].width])

PageRelative ==
    << El("img", [src |-> <<"/", "a", ".", "jpg">>, srcset |-> SrcsetOf(<<>>)]) >>

PageAbsolute ==
    << El("meta", [property |-> <<"og", ":", "image">>, content |-> U(<<"/", "a", ".", "jpg">>)]),
       El("img", [src |-> U(<<"/", "a", ".", "jpg">>), srcset |-> SrcsetOf(ConfiguredSource),
                  sizes |-> <<"100vw">>]),
       El("img", [src |-> <<"/", "b", ".", "png">>]) >>

PageBareMeta ==
    << El("meta", [property |-> <<"og", ":", "image">>]),
       El("img", [src |-> <<"/", "a", ".", "jpg">>, srcset |-> SrcsetOf(<<>>)]) >>

Pages == {PageRelative, PageAbsolute, PageBareMeta}

VariantFiles == {Responsive[k].stem \o <<".", fmt>> : k \in 1..Len(Responsive), fmt \in {"webp", "avif", "jxl"}}

\* the tree a crawl of the page leaves, with the variants of V
PageStore(V) ==
    [q \in {<<"index", ".", "html">>} \cup {Responsive[k].stem \o <<".", "jpg">> : k \in 1..Len(Responsive)} \cup V |->
        IF q = <<"index", ".", "html">> THEN Content("text", ConfiguredSource, <<>>)
        ELSE IF q \in V THEN Content("variant", q, <<>>)
        ELSE Content("bytes", U(<<"/">> \o q), <<>>)]

InitFormats ==
    /\ source_url = ConfiguredSource
    /\ target_url = ConfiguredTarget
    /\ visited_urls = {}
    /\ file_urls = {}
    /\ \E V \in SUBSET VariantFiles : files = PageStore(V)
    /\ \E page \in Pages : site = (ConfiguredSource :> Html(page))
    /\ stack = <<Frame("update_html_for_image_formats", <<>>)>>
    /\ exc = "none"
    /\ fetches = <<>>
    /\ failures = 0
    /\ call = NoCall
    /\ force_reconvert = FALSE
    /\ encoders = Encoders
    /\ trace = <<>>
    /\ log = NoLog

NextFormats == FormatsWalk \/ FormatsFile \/ FormatsReturn \/ Propagate

SpecFormats == InitFormats /\ [][NextFormats]_vars

-----------------------------------------------------------------------------
(* update_urls_in_all_files called, and called again, on a generator made   *)
(* with a pair of origins, over a tree of files that name the source        *)

Origins(source, target) == [source |-> source, target |-> target]

OriginPairs ==
    {Origins(ConfiguredSource, ConfiguredTarget),
     Origins(<<"http", ":", "/", "/", "helium">>,
             <<"http", ":", "/", "/", "helium", ".", "cadenkraft", ".", "com">>),
     Origins(<<"http", ":", "/", "/", "helium">>, <<"https", ":", "/", "/", "helium">>)}

PageOf(src) ==
    Content("soup", <<>>,
            << El("a", [href |-> src \o <<"/", "p", "/">>]),
               El("iframe", [src |-> src \o <<"/", "w", ".", "html">>]),
               ElText("script", <<"load", "(", "'">> \o src \o <<"/", "x", ".", "js", "'", ")">>) >>)

SheetOf(src) ==
    Content("str", <<>>, <<ElText("", <<"a", "{", "background", ":", "url", "(">> \o src
                                      \o <<"/", "a", ".", "jpg", ")", "}">>)>>)

\* the trees: what a file is named decides whether the pass reads it
RewriteStores(src) ==
    {(<<"index", ".", "html">> :> PageOf(src)),
     (<<"index", ".", "html">> :> PageOf(src)) @@ (<<"s", ".", "css">> :> SheetOf(src))
         @@ (<<"robots", ".", "txt">> :> SheetOf(src)),
     (<<"p", "/", "INDEX", ".", "HTML">> :> PageOf(src)) @@ (<<"feed", ".", "xml">> :> SheetOf(src))
         @@ (<<"s", ".", "js">> :> SheetOf(<<"/">>))}

InitRewrite ==
    /\ \E o \in OriginPairs :
          /\ source_url = o.source
          /\ target_url = o.target
          /\ files \in RewriteStores(o.source)
    /\ visited_urls = {}
    /\ file_urls = {}
    /\ site = <<>>
    /\ stack = <<Frame("update_urls_in_all_files", <<>>)>>
    /\ exc = "none"
    /\ fetches = <<>>
    /\ failures = 0
    /\ call = NoCall
    /\ force_reconvert = FALSE
    /\ encoders = Encoders
    /\ trace = <<>>
    /\ log = NoLog

\* the pass has returned: it is called a second time, call.ret keeping the
\* tree that the first call left
RewriteAgain ==
    /\ stack = <<>> /\ call.op = "none"
    /\ call' = [op |-> "again", parts |-> <<>>, ret |-> files]
    /\ stack' = <<Frame("update_urls_in_all_files", <<>>)>>
    /\ UNCHANGED <<source_url, target_url, visited_urls, file_urls, files, site, exc, fetches,
                   failures, force_reconvert, encoders, trace, log>>

NextRewrite == RewriteWalk \/ RewriteFile \/ RewriteReturn \/ RewriteAgain

SpecRewrite == InitRewrite /\ [][NextRewrite]_vars

-----------------------------------------------------------------------------
(* save_file and is_same_domain called directly, on a URL written from its  *)
(* components: [scheme, userinfo, host, port, path, query, fragment],       *)
(* authority telling whether the URL has one                                *)

Authority(userinfo, host, port) ==
    [authority |-> TRUE, userinfo |-> userinfo, host |-> host, port |-> port]

NoAuthority == [authority |-> FALSE, userinfo |-> <<>>, host |-> <<>>, port |-> <<>>]

Authorities ==
    {Authority(<<>>, <<"helium">>, <<"2368">>), Authority(<<>>, <<"HELIUM">>, <<"2368">>),
     Authority(<<"user">>, <<"helium">>, <<"2368">>), Authority(<<>>, <<"helium">>, <<"80">>),
     Authority(<<>>, <<"helium">>, <<>>), Authority(<<>>, <<"cdn">>, <<>>),
     Authority(<<>>, <<"cadenkraft", ".", "com">>, <<>>)}

AbsolutePaths ==
    {<<>>, <<"/">>, <<"/", "a">>, <<"/", "a", "/">>, <<"/", "a", "/", "b", ".", "jpg">>,
     <<"/", "/", "a">>, <<"/", "index", ".", "html">>}

RelativePaths == {<<>>, <<"/", "a", "/">>, <<"a", "/", "b", ".", "jpg">>, <<"a", "/">>}

Extras ==
    {[query |-> <<>>, fragment |-> <<>>], [query |-> <<"q", "=", "a">>, fragment |-> <<>>],
     [query |-> <<"q">>, fragment |-> <<"f">>]}

UrlOf(scheme, a, path, x) ==
    [scheme |-> scheme, authority |-> a.authority, userinfo |-> a.userinfo, host |-> a.host,
     port |-> a.port, path |-> path, query |-> x.query, fragment |-> x.fragment]

UrlParts ==
    {UrlOf(s, a, p, x) : s \in {<<"http">>, <<"https">>}, a \in Authorities,
                         p \in AbsolutePaths, x \in Extras}
    \cup {UrlOf(<<>>, NoAuthority, p, x) : p \in RelativePaths, x \in Extras}

\* the URL as text
Written(p) ==
    (IF p.scheme # <<>> THEN p.scheme \o <<":">> ELSE <<>>)
    \o (IF p.authority
        THEN <<"/", "/">> \o (IF p.userinfo # <<>> THEN p.userinfo \o <<"@">> ELSE <<>>)
             \o p.host \o (IF p.port # <<>> THEN <<":">> \o p.port ELSE <<>>)
        ELSE <<>>)
    \o p.path
    \o (IF p.query # <<>> THEN <<"?">> \o p.query ELSE <<>>)
    \o (IF p.fragment # <<>> THEN <<"#">> \o p.fragment ELSE <<>>)

\* an output tree that earlier saves have left
PriorFiles ==
    (<<"index", ".", "html">> :> Content("text", ConfiguredSource, <<>>))
    @@ (<<"z", ".", "css">> :> Content("bytes", ConfiguredSource \o <<"/", "z", ".", "css">>, <<>>))

\* self.save_file(url, content, ...), as bytes or as text
CallSaveFile ==
    /\ call.op # "is_same_domain"
    /\ \E ser \in {"bytes", "text"} :
          files' = save_file(files, Written(call.parts), Content(ser, Written(call.parts), <<>>))
    /\ call' = [call EXCEPT !.op = "save_file"]
    /\ UNCHANGED <<source_url, target_url, visited_urls, file_urls, site, stack, exc,
                   fetches, failures, force_reconvert, encoders, trace, log>>

\* self.is_same_domain(url)
CallIsSameDomain ==
    /\ call.op = "none"
    /\ call' = [call EXCEPT !.op = "is_same_domain",
                            !.ret = is_same_domain(source_url, Written(call.parts))]
    /\ UNCHANGED <<source_url, target_url, visited_urls, file_urls, files, site, stack, exc,
                   fetches, failures, force_reconvert, encoders, trace, log>>

InitUrl ==
    /\ source_url = ConfiguredSource
    /\ target_url = ConfiguredTarget
    /\ visited_urls \in {{}, {ConfiguredSource, ConfiguredSource \o <<"/", "a", "/">>}}
    /\ file_urls = {}
    /\ files \in {<<>>, PriorFiles}
    /\ site = <<>>
    /\ stack = <<>>
    /\ exc = "none"
    /\ fetches = <<>>
    /\ failures = 0
    /\ call \in {[op |-> "none", parts |-> p, ret |-> <<>>] : p \in UrlParts}
    /\ force_reconvert = FALSE
    /\ encoders = Encoders
    /\ trace = <<>>
    /\ log = NoLog

NextUrl == CallSaveFile \/ CallIsSameDomain

SpecUrl == InitUrl /\ [][NextUrl]_vars

-----------------------------------------------------------------------------
(* Properties of the crawl *)

Finished == stack = <<>>

FramesOf(fn) == {j \in 1..Len(stack) : stack[j].fn = fn}

\* scrape_url has been called with u
Dispatched(u) ==
    u \in visited_urls \/ \E j \in FramesOf("scrape_url") : stack[j].url = u

Seed == <<"http", ":", "/", "/", "helium", ":", "2368">>

SevenRootFiles ==
    {Seed \o <<"/", "favicon", ".", "ico">>, Seed \o <<"/", "robots", ".", "txt">>,
     Seed \o <<"/", "sitemap", ".", "xml">>,
     Seed \o <<"/", "sitemap", "-", "authors", ".", "xml">>,
     Seed \o <<"/", "sitemap", "-", "pages", ".", "xml">>,
     Seed \o <<"/", "sitemap", "-", "posts", ".", "xml">>,
     Seed \o <<"/", "sitemap", "-", "tags", ".", "xml">>}

\* C1: within a run no URL is requested more than once (scrape_url,
\* scrape_image_sizes, scrape_meta_images and scrape_iframe_content counted
\* together), so when the crawl is over the requested URLs are the visited ones
AtMostOneFetch ==
    /\ \A u \in DOMAIN fetches : fetches[u] <= 1
    /\ Finished => DOMAIN fetches = visited_urls

\* C2: scrape_site returns, whatever the pages link and embed and whatever the
\* requests answer; the recursion never reaches the depth the model allows
Terminates == <>Finished /\ [](Len(stack) < MaxDepth)

\* C2, its case: the crawl of the pages that embed each other is over, and
\* requests have failed on the way
TerminatesCase ==
    /\ Finished /\ site = SiteFrames /\ failures > 0
    /\ Seed \o <<"/", "p", "/">> \in visited_urls

\* the in-scope references the tag and style loops of a page dispatch
PageRefs(u) ==
    {ProcessHtmlPlan(source_url, u, site[u].doc)[k].url :
        k \in {n \in 1..Len(ProcessHtmlPlan(source_url, u, site[u].doc)) :
                   ProcessHtmlPlan(source_url, u, site[u].doc)[n].kind = "url"}}

\* process_html(u) has run to its last statement
Processed(u) ==
    /\ local_path(u) \in DOMAIN files
    /\ files[local_path(u)] = Content("soup", u, files[local_path(u)].doc)

\* C3: a failed request never aborts the crawl.  The exception is taken by an
\* except clause of the function that made the request, scrape_url is never
\* left by an exception, every item a loop has passed has been dispatched, and
\* at the end the root files and the references of every processed page have
\* been dispatched
FailedFetchContained ==
    /\ Finished => exc = "none"
    /\ exc = "RequestException" => Handler(Top.fn, Top.pc, exc) # "raise"
    /\ exc # "none" /\ stack # <<>> /\ Top.fn = "scrape_url"
          => Handler(Top.fn, Top.pc, exc) # "raise"
    /\ \A j \in FramesOf("process_html") \cup FramesOf("scrape_iframe_content") :
          \A k \in 1..(stack[j].i - 1) :
              k <= Len(stack[j].plan) /\ stack[j].plan[k].kind = "url"
                  => Dispatched(stack[j].plan[k].url)
    /\ \A j \in FramesOf("scrape_root_files") :
          \A k \in 1..(stack[j].i - 1) : Dispatched(urljoin(source_url, root_files[k]))
    /\ Finished => SevenRootFiles \subseteq visited_urls
    /\ Finished => \A u \in visited_urls \cap DOMAIN site :
                       Processed(u) => PageRefs(u) \subseteq visited_urls

\* C3, its case: requests have failed (one by its status, the others in
\* transport), and the crawl is over with a page processed to its end
FailedFetchCase ==
    /\ Finished /\ failures = MaxFailures
    /\ Seed \o <<"/", "sitemap", "-", "tags", ".", "xml">> \in DOMAIN fetches
    /\ \E u \in visited_urls \cap DOMAIN site : Processed(u) /\ PageRefs(u) # {}

\* C4: when scrape_site has returned each of the seven root files has been
\* dispatched and requested, linked or not, whatever failed before; while the
\* root-file loop runs the seed crawl has returned
RootFilesDispatched ==
    /\ Finished => SevenRootFiles \subseteq visited_urls \cap DOMAIN fetches
    /\ \A j \in FramesOf("scrape_root_files") :
          /\ j = 2 /\ stack[1].fn = "scrape_site" /\ stack[1].pc = "in_roots"
          /\ Seed \in visited_urls
          /\ \A i \in FramesOf("scrape_url") : i > j

\* C4, its case: the seed request failed, a page had linked a root file, and
\* the crawl is over
RootFilesCase ==
    /\ Finished
    /\ <<"index", ".", "html">> \notin DOMAIN files
    /\ Seed \o <<"/", "robots", ".", "txt">> \in DOMAIN fetches

\* C4, its other case: a root file that a page links is dispatched by the
\* page first
RootFilesLinkedCase ==
    /\ Seed \o <<"/", "sitemap", ".", "xml">> \in visited_urls
    /\ FramesOf("scrape_root_files") = {} /\ stack # <<>> /\ stack[1].pc = "in_seed"

\* the same-origin script, stylesheet and image references of the document at f
FrameRefs(f) ==
    {u \in {urljoin(f, Or(Get(site[f].doc[k], "src"), Get(site[f].doc[k], "href"))) :
                k \in {n \in 1..Len(site[f].doc) :
                           \/ site[f].doc[n].tag \in {"script", "img"} /\ Has(site[f].doc[n], "src")
                           \/ /\ site[f].doc[n].tag = "link" /\ Has(site[f].doc[n], "href")
                              /\ Contains1(Get(site[f].doc[n], "rel"), "stylesheet")}} :
        is_same_domain(source_url, u)}

\* the iframe elements of the page at p that have a src
IframesOf(p) ==
    {k \in 1..Len(site[p].doc) :
        site[p].doc[k].tag = "iframe" /\ Get(site[p].doc[k], "src") # <<>>}

\* the file of page p is the re-serialized document, its k-th element with this src
SavedWithSrc(p, k, src) ==
    /\ local_path(p) \in DOMAIN files
    /\ files[local_path(p)].ser = "soup"
    /\ files[local_path(p)].doc[k].attrs["src"] = src

\* C10: when the crawl is over and no request has failed in transport, for
\* every iframe of every fetched page: if its resolved src is in scope the
\* frame document is saved, its same-origin script, stylesheet and image
\* references have been dispatched, and the page as saved carries the src with
\* the source origin replaced by the target origin; if it is out of scope it
\* was never requested and the page as saved carries the src as written
IframesMirrored ==
    Finished /\ failures = 0 =>
        \A p \in {u \in visited_urls \cap DOMAIN site : Branch(site[u].ctype) = "html"} :
            \A k \in IframesOf(p) :
                LET f == urljoin(p, site[p].doc[k].attrs["src"])
                IN  IF is_same_domain(source_url, f)
                    THEN /\ f \in DOMAIN site =>
                               /\ local_path(f) \in DOMAIN files
                               /\ FrameRefs(f) \subseteq visited_urls
                         /\ SavedWithSrc(p, k, Replace(f, source_url, target_url))
                    ELSE /\ f \notin DOMAIN fetches
                         /\ SavedWithSrc(p, k, site[p].doc[k].attrs["src"])

-----------------------------------------------------------------------------
(* Properties of the classifier and of the store *)

\* the local path of a path component: no leading slash, index.html for a
\* directory
PathFor(path) ==
    IF LStripSlash(path) = <<>> THEN <<"index", ".", "html">>
    ELSE IF path[Len(path)] = "/" THEN LStripSlash(path) \o <<"index", ".", "html">>
    ELSE LStripSlash(path)

\* C5: a save of a URL writes the file that the path component of the URL
\* names and no other, whatever the scheme, authority, query and fragment of
\* the URL, the visited set and the files saved before: index.html of the
\* directory for an empty path or one that ends in a slash, the path itself
\* otherwise
PathIsFunctionOfPath ==
    call.op = "save_file" =>
        /\ PathFor(call.parts.path) \in DOMAIN files
        /\ files[PathFor(call.parts.path)].of = Written(call.parts)
        /\ DOMAIN files \subseteq DOMAIN PriorFiles \cup {PathFor(call.parts.path)}
        /\ \A q \in DOMAIN files \ {PathFor(call.parts.path)} : files[q] = PriorFiles[q]

\* C5, its case: a URL whose path ends in a slash, with a query, saved over
\* https into a tree that held files
PathIsFunctionOfPathCase ==
    /\ call.op = "save_file"
    /\ call.parts.path = <<"/", "a", "/">> /\ call.parts.query # <<>>
    /\ call.parts.scheme = <<"https">> /\ call.parts.host = <<"cdn">>
    /\ DOMAIN files = DOMAIN PriorFiles \cup {<<"a", "/", "index", ".", "html">>}
    /\ visited_urls # {}

\* C6: is_same_domain(U) is true exactly when the host and the port of U are
\* those of the seed origin
SameDomainIffHostAndPort ==
    call.op = "is_same_domain" =>
        (call.ret <=> call.parts.host = <<"helium">> /\ call.parts.port = <<"2368">>)

-----------------------------------------------------------------------------
(* Properties of the stages of run() *)

\* the document of a file is free of the text old
RECURSIVE Free(_, _)
Free(els, old) ==
    \A k \in 1..Len(els) :
        /\ \A n \in DOMAIN els[k].attrs : ~Contains(els[k].attrs[n], old)
        /\ ~Contains(els[k].string, old)
        /\ Free(els[k].kids, old)

\* C7: a second call of update_urls_in_all_files changes no file, the first
\* having left no occurrence of the source origin in a file that it reads
RewriteIsFixedPoint ==
    call.op = "again" =>
        /\ files = call.ret
        /\ \A p \in DOMAIN files : IsRewritten(p) => Free(files[p].doc, source_url)

\* C8: run() calls its seven stages in their order, each once and none left
\* out: what it has called is always the first stages of the list, a rewrite
\* pass runs only when the crawl and the transcoding are over, and when run()
\* is over all seven have been called
StagesOnceInOrder ==
    /\ \E n \in 0..Len(Stages) : trace = SubSeq(Stages, 1, n)
    /\ \A j \in FramesOf("update_html_for_image_formats") \cup FramesOf("update_urls_in_all_files") :
          /\ {"scrape_site", "convert_images"} \subseteq {trace[k] : k \in 1..Len(trace)}
          /\ FramesOf("scrape_site") \cup FramesOf("scrape_url") \cup FramesOf("convert_images") = {}
    /\ Finished => trace = Stages

\* the sources of one format inside a picture
SourcesOf(picture, fmt) ==
    {j \in 1..Len(picture.kids) :
        /\ picture.kids[j].tag = "source"
        /\ Get(picture.kids[j], "type") = <<"image", "/", fmt>>}

\* a srcset lists one candidate for each entry of the img, with its width
ListsEveryWidth(srcset) ==
    /\ Len(SplitOn(srcset, ",")) = Len(Responsive)
    /\ \A k \in 1..Len(Responsive) :
          LET parts == WhiteSplit(SplitOn(srcset, ",")[k])
          IN  Len(parts) = 2 /\ <<parts[2]>> = Responsive[k].width

\* C9: in a page the pass has written, a picture holds a source of a format
\* only if the variant of that format is on disk for every entry of the
\* img's srcset, and the source then lists every entry with its width
SourceOnlyIfEveryVariant ==
    \A p \in DOMAIN files :
        files[p].ser = "soup" =>
            \A k \in 1..Len(files[p].doc), fmt \in {"webp", "avif", "jxl"} :
                files[p].doc[k].tag = "picture" =>
                    \A j \in SourcesOf(files[p].doc[k], fmt) :
                        /\ \A e \in 1..Len(Responsive) :
                              Responsive[e].stem \o <<".", fmt>> \in DOMAIN files
                        /\ ListsEveryWidth(files[p].doc[k].kids[j].attrs["srcset"])

\* the url(...) references of a CSS text, as CSS reads them: what stands
\* between "url(" and the next ")", without the quotes
CssRefs(text) ==
    {SelectSeq(SubSeq(text, k + 2, FindAny(text, {")"}, k + 2) - 1), LAMBDA t : t \notin Quotes) :
        k \in {n \in 1..(Len(text) - 1) : text[n] = "url" /\ text[n + 1] = "("}}

\* the url(...) references of the style elements and style attributes of page p
StyleRefs(p) ==
    UNION {CssRefs(IF site[p].doc[k].tag = "style" THEN site[p].doc[k].string
                   ELSE Get(site[p].doc[k], "style")) : k \in 1..Len(site[p].doc)}

\* the pages scrape_url has fetched as HTML
FetchedPages ==
    {u \in visited_urls \cap DOMAIN site :
        Branch(site[u].ctype) = "html" /\ u \in DOMAIN log.gets}

\* C11: when the crawl is over and no request has failed in transport, every
\* url(...) reference of a style element or a style attribute of every fetched
\* page that resolves to an in-scope URL has been dispatched to scrape_url,
\* and its file is in the tree if the origin serves it, whatever else the
\* page holds
StyleRefsDispatched ==
    Finished /\ failures = 0 =>
        \A p \in FetchedPages :
            \A r \in StyleRefs(p) :
                is_same_domain(source_url, urljoin(p, r)) =>
                    /\ urljoin(p, r) \in visited_urls
                    /\ urljoin(p, r) \in DOMAIN site
                           => local_path(urljoin(p, r)) \in DOMAIN files

\* the files of the tree convert_images was called on that it takes for images
ImagesBefore ==
    {p \in DOMAIN call.ret : \E x \in ImageExtensions : EndsWith(LowerAll(p), x)}

\* C12: with force_reconvert unset, an encoder is never run for a variant that
\* was on disk and that variant keeps its content; with force_reconvert set,
\* when convert_images is over the encoder of every format has been run for
\* every image of the tree
ForceReconvertRule ==
    /\ ~force_reconvert =>
          \A p \in ImagesBefore : \A k \in 1..Len(Formats) :
              Variant(p, Formats[k]) \in DOMAIN call.ret =>
                  /\ <<p, Formats[k]>> \notin log.invoked
                  /\ files[Variant(p, Formats[k])] = call.ret[Variant(p, Formats[k])]
    /\ force_reconvert /\ Finished =>
          \A p \in ImagesBefore : \A k \in 1..Len(Formats) : <<p, Formats[k]>> \in log.invoked

\* C13: when a second run is over and no request and no encoder has failed in
\* either run, the tree is the tree the first run left; in particular no img
\* is wrapped in a second picture
SecondRunChangesNothing ==
    call.op = "run" /\ Finished /\ failures = 0 => files = call.ret

\* a call of scrape_url that is past its first statement
Past(j) == stack[j].fn = "scrape_url" /\ stack[j].pc # "start"

\* C14: scrape_url notes the URL before it requests it.  A call that is past
\* its first statement has its URL in visited_urls; scrape_url requests a URL
\* at most once, and only a visited one; a call for a URL that an enclosing
\* call is fetching or processing is at its first statement, from which it
\* returns; and visited_urls only grows
VisitedBeforeRequest ==
    /\ [](/\ \A j \in 1..Len(stack) : Past(j) => stack[j].url \in visited_urls
          /\ \A u \in DOMAIN log.gets : u \in visited_urls /\ log.gets[u] = 1
          /\ \A i, j \in FramesOf("scrape_url") :
                i < j /\ stack[i].url = stack[j].url => ~Past(j) /\ j = Len(stack))
    /\ [][visited_urls \subseteq visited_urls']_vars

\* C14, its case: a page that is being processed is found again by a page it
\* links, after it has been requested
VisitedBeforeRequestCase ==
    \E i, j \in FramesOf("scrape_url") :
        /\ i < j /\ stack[i].url = stack[j].url
        /\ stack[i].url \in DOMAIN log.gets
        /\ \E k \in FramesOf("process_html") : i < k /\ k < j /\ stack[k].url # stack[i].url

\* the URLs save_file has been called for
SavedUrls == UNION {{w[2] : w \in log.saves[p]} : p \in DOMAIN log.saves}

\* C15: a failed request is final for its URL: the URL is not requested again
\* by any step of the crawl, nothing is saved for a URL whose first request
\* failed, and a URL that scrape_url has requested stays in visited_urls
FailedIsFinal ==
    /\ \A u \in DOMAIN log.failed : fetches[u] = log.failed[u]
    /\ \A u \in DOMAIN log.failed : log.failed[u] = 1 => u \notin SavedUrls
    /\ DOMAIN log.gets \subseteq visited_urls

ItemUrls(items) == {items[k].url : k \in 1..Len(items)}

TagUrls(u) == ItemUrls(HtmlTagItems(source_url, u, site[u].doc))

IframeUrls(u) == ItemUrls(HtmlIframeItems(source_url, u, site[u].doc))

StyleUrls(u) == ItemUrls(HtmlStyleItems(source_url, u, site[u].doc))

InlineUrls(u) == ItemUrls(HtmlInlineItems(source_url, u, site[u].doc))

\* C16: process_html saves the raw page, runs the tag loop, the iframe loop,
\* the style-element loop and the style-attribute loop in that order, then
\* saves the re-serialized document.  While process_html has a call under way
\* the raw save is done; when it calls scrape_iframe_content every tag
\* reference has been dispatched, when it dispatches a style reference every
\* iframe has been requested too, when it dispatches a style-attribute
\* reference every style-element reference has been dispatched; when it has
\* returned normally every loop is over and the file is the re-serialized
\* document; and when the crawl is over the file of every fetched page exists
ProcessHtmlOrder ==
    /\ \A j \in FramesOf("process_html") :
          /\ stack[j].pc # "start" => local_path(stack[j].url) \in DOMAIN files
          /\ j < Len(stack) =>
                /\ stack[j].pc # "start"
                /\ stack[j + 1].fn = "scrape_iframe_content"
                      => TagUrls(stack[j].url) \subseteq visited_urls
                /\ stack[j + 1].fn = "scrape_url" /\ stack[j + 1].url \notin TagUrls(stack[j].url)
                      => /\ TagUrls(stack[j].url) \subseteq visited_urls
                         /\ IframeUrls(stack[j].url) \subseteq DOMAIN fetches
                /\ (/\ stack[j + 1].fn = "scrape_url"
                    /\ stack[j + 1].url \notin TagUrls(stack[j].url) \cup StyleUrls(stack[j].url))
                      => StyleUrls(stack[j].url) \subseteq visited_urls
    /\ stack # <<>> /\ Top.fn = "scrape_url" /\ Top.pc = "in_html" /\ exc = "none"
          => /\ Processed(Top.url)
             /\ TagUrls(Top.url) \cup StyleUrls(Top.url) \cup InlineUrls(Top.url)
                    \subseteq visited_urls
             /\ IframeUrls(Top.url) \subseteq DOMAIN fetches
    /\ Finished /\ failures = 0 => \A u \in FetchedPages : local_path(u) \in DOMAIN files

\* C16, its case: the crawl is over; the iframe loop of one page failed on a
\* frame, the page is on disk and is not the re-serialized document; another
\* page, with a link and iframes, was processed to its end
ProcessHtmlOrderCase ==
    /\ Finished /\ failures = 0 /\ site = SiteFrames
    /\ Seed \o <<"/", "p", "/">> \in FetchedPages
    /\ <<"process_html", Seed \o <<"/", "p", "/">> >> \in log.saves[<<"p", "/", "index", ".", "html">>]
    /\ ~Processed(Seed \o <<"/", "p", "/">>)
    /\ Processed(Seed)

Range(seq) == {seq[k] : k \in 1..Len(seq)}

\* the references the tag and iframe loops find in element e, as written
LinkRefs(e) ==
    (IF e.tag \in {"a", "link", "script", "img", "source"} THEN {FirstRef(e)} ELSE {})
    \cup (IF e.tag = "iframe" THEN {Get(e, "src")} ELSE {})
    \cup (IF e.tag = "style" THEN Range(CssUrls(e.string)) ELSE {})
    \cup Range(CssUrls(Get(e, "style")))

\* the references only scrape_image_sizes and scrape_meta_images find in e
ImageRefs(e) ==
    (IF e.tag \in {"img", "source"}
     THEN Range(SrcsetUrls(Or(Get(e, "srcset"), Get(e, "data-srcset")))) ELSE {})
    \cup (IF e.tag = "meta" /\ Get(e, "property") \in MetaProperties
          THEN {Get(e, "content")} ELSE {})

\* the references the extractors find in page p, as written
DiscoveredRefs(p) ==
    UNION {LinkRefs(site[p].doc[k]) \cup ImageRefs(site[p].doc[k]) : k \in 1..Len(site[p].doc)}
    \ {<<>>}

\* C18: when the crawl is over and no request has failed in transport, every
\* reference that an extractor has found in a page processed to its end and
\* that resolves, against the URL of the page, to a URL of the seed authority
\* has been requested, however it is written
ResolvedThenChecked ==
    Finished /\ failures = 0 =>
        \A p \in FetchedPages :
            Processed(p) =>
                \A r \in DiscoveredRefs(p) :
                    is_same_domain(source_url, urljoin(p, r)) => urljoin(p, r) \in DOMAIN fetches

\* C19: during the crawl every path of the tree is written by one step only:
\* the calls of save_file for one path come from one function, for one URL
\* (the two saves of process_html for a page are one step)
OneWriterPerPath ==
    \A p \in DOMAIN log.saves : Cardinality(log.saves[p]) <= 1

\* the files process_image(img) may write
Destinations(img) == {Variant(img, Formats[k]) : k \in 1..Len(Formats)}

\* C20: the images convert_images has submitted to the pool have pairwise
\* disjoint destinations
DestinationsDisjoint ==
    \A j \in FramesOf("convert_images") :
        \A a, b \in 1..Len(stack[j].plan) :
            a # b => Destinations(stack[j].plan[a].path) \cap Destinations(stack[j].plan[b].path) = {}

\* the images of the tree convert_images was called on that it lists
ListedBefore == {p \in ImagesBefore : Eligible(call.ret, p)}

\* C21: a failing or missing encoder costs its format only.  No task of the
\* pool ends with an exception; when convert_images is over it has returned
\* normally, and for every listed image every format has been attempted: its
\* encoder was started, or its variant was on disk
EncoderFailureContained ==
    /\ \A j \in FramesOf("convert_images") :
          \A k \in 1..Len(stack[j].plan) : stack[j].plan[k].at # "raised"
    /\ Finished => exc = "none"
    /\ Finished =>
          \A p \in ListedBefore : \A k \in 1..Len(Formats) :
              <<p, Formats[k]>> \in log.invoked \/ Exists(files, Variant(p, Formats[k]))

\* C22: an error on one file of a rewrite pass is caught at that file: an
\* exception raised in the body of the loop has a handler in the pass, and
\* when the pass is over it has returned normally
PerFileErrorsCaught ==
    /\ exc # "none" /\ stack # <<>> => Handler(Top.fn, Top.pc, exc) # "raise"
    /\ Finished => exc = "none"

\* the picture elements of a document, at any depth
RECURSIVE PicturesOf(_)
PicturesOf(els) ==
    {els[k] : k \in {n \in 1..Len(els) : els[n].tag = "picture"}}
        \cup UNION {PicturesOf(els[k].kids) : k \in 1..Len(els)}

\* the place of a source in the order jxl, avif, webp; 0 for another type
FormatRank(source) ==
    With(Get(source, "type"), LAMBDA t :
        IF t = <<"image", "/", "jxl">> THEN 1
        ELSE IF t = <<"image", "/", "avif">> THEN 2
        ELSE IF t = <<"image", "/", "webp">> THEN 3 ELSE 0)

\* the children of a picture are sources and then, last, the img
SourcesThenImg(picture) ==
    /\ picture.kids # <<>>
    /\ picture.kids[Len(picture.kids)].tag = "img"
    /\ \A j \in 1..(Len(picture.kids) - 1) :
          /\ picture.kids[j].tag = "source"
          /\ FormatRank(picture.kids[j]) # 0

\* the img elements of a document that have a src and are not the child of a
\* picture
RECURSIVE BareImages(_)
BareImages(els) ==
    {els[k] : k \in {n \in 1..Len(els) :
        els[n].tag = "img" /\ Or(Get(els[n], "src"), Get(els[n], "data-src")) # <<>>}}
        \cup UNION {BareImages(els[k].kids) :
                      k \in {n \in 1..Len(els) : els[n].tag # "picture"}}
        \cup UNION {BareImages(SelectSeq(els[k].kids, LAMBDA e : e.tag # "img")) :
                      k \in {n \in 1..Len(els) : els[n].tag = "picture"}}

\* C24: in a page update_html_for_image_formats has written, every img with
\* a src is the child of a picture, and the children of a picture that holds
\* an img are its sources followed by the img, which is the last child, a
\* source of jxl standing before one of avif, which stands before one of webp
SourcesPrecedeImg ==
    \A p \in DOMAIN files :
        files[p].ser = "soup" =>
            /\ BareImages(files[p].doc) = {}
            /\ \A pic \in PicturesOf(files[p].doc) :
                  (\E j \in 1..Len(pic.kids) : pic.kids[j].tag = "img") =>
                      /\ SourcesThenImg(pic)
                      /\ \A i, j \in 1..(Len(pic.kids) - 1) :
                            i < j => FormatRank(pic.kids[i]) < FormatRank(pic.kids[j])

\* the pass is over and the page it has written holds a picture with a source
\* of each of the three formats before its img
SourcesPrecedeImgCase ==
    \E p \in DOMAIN files :
        /\ files[p].ser = "soup"
        /\ \E pic \in PicturesOf(files[p].doc) : Len(pic.kids) = 4
        /\ stack = <<>>

\* the references of page p that resolve to a URL of another authority
ForeignRefs(p) ==
    {r \in DiscoveredRefs(p) : urlparse(urljoin(p, r)).netloc # urlparse(source_url).netloc}

\* C25: in every state of the crawl, every URL that is in visited_urls, that
\* has been requested by any function, or that save_file has been called for,
\* has the netloc of the seed
RequestsInScope ==
    \A u \in visited_urls \cup DOMAIN fetches \cup SavedUrls :
        urlparse(u).netloc = urlparse(source_url).netloc

\* the crawl is over; a page that refers to URLs of other authorities in an
\* img, in a meta and in a style has been processed, its image and metadata
\* extractors have requested images, and a frame written with another scheme
\* has been requested
RequestsInScopeCase ==
    /\ Finished
    /\ \E p \in FetchedPages :
          /\ Processed(p)
          /\ Cardinality(ForeignRefs(p)) >= 3
          /\ \E r \in DiscoveredRefs(p) \ ForeignRefs(p) : r \in SavedUrls

\* C23: time.sleep is called between any two consecutive requests of the
\* crawl, whoever issues them and whether the earlier one succeeded or failed
DelayBetweenRequests == ~log.rushed

====
